---- MODULE Spec2Model ----
(***************************************************************************)
(* A model of the package construction / repackaging engine of iOS-vcam:   *)
(* the ar container codec (deb_packer.py, change_maintainer.py,            *)
(* validate_deb.py, ios_deb_ip_changer_final.py, ios_debrand_end_to_end.py),*)
(* the length-preserving binary patcher and the package assembler.         *)
(*                                                                         *)
(* Bytes are integers 0..255 and byte strings are sequences of them.       *)
(* Python str values that the code encodes as ASCII are modelled by their  *)
(* ASCII bytes.                                                            *)
(***************************************************************************)
EXTENDS Integers, Sequences, FiniteSets, TLC

VARIABLES
    \* ---- container codec (one writer call, then one reader call) ----
    arMembers,   \* the Container handed to the writer: <<[name, content], ...>>
    arFile,      \* bytes of the file the writer left on disk
    arOffs,      \* f.tell() at the start of each header the writer wrote
    arErr,       \* exception raised by the writer ("none" if it returned)
    arWriter,    \* which writer ran
    arRead,      \* result of the reader call: [reader, err, members]
    arDamage,    \* how the file was damaged after it was written ("none" if not)
    arPc,        \* "build" | "written" | "corrupt" | "read"
    \* ---- binary patcher (a file and the patch calls made on it) ----
    binOrig,     \* bytes of the file before any patch call
    binFile,     \* bytes of the file now
    binLog,      \* the calls made so far: <<[op, ret, err, after], ...>>
    \* ---- the tools (files on disk and the last run) ----
    srcDeb,      \* bytes of the source package the user supplies
    baseDeb,     \* bytes of iosvcam_base.deb (<<>> while it does not exist)
    outDir,      \* modified_debs/: variant name -> bytes
    modDeb,      \* bytes of <input>.modified.deb (<<>> while it does not exist)
    lastRun,     \* the last run: [tool, input, tweak, rc, err, results, out]
    runCount,    \* number of runs so far
    valRun,      \* the validator run: [done, pkg, stamp, given, rc, fail]
    \* ---- metadata patcher (a control file and one modify_maintainer call) ----
    ctlFile,     \* text of the control file now
    ctlCall,     \* the call made: [done, before, new_maintainer, new_author,
                 \*                 remove_repo, warnings]
    \* ---- two variant generator processes started in the same directory ----
    conWork,     \* deb_work_temp/: [exists, control_files, data_files]
    conOut,      \* modified_debs/: variant name -> bytes
    conProc,     \* per process: [pc, ip, base_ip, parsed, ok, err]
    \* ---- the runs step by step (files under their paths) ----
    stepDisk,    \* the files on disk: path -> bytes
    stepWork,    \* the work directories: name -> [exists, control, data]
    stepRun,     \* the run in progress: [tool, pc, input, before, ..., log]
    stepHist,    \* the runs that have ended, in order
    \* ---- file-archive builders (a staged tree and one builder call) ----
    tarTree,     \* the staged tree: <<[path, kind, content], ...>>
    tarHost,     \* the build host: [uid, gid, uname, gname, fmode, mtime]
    tarOut,      \* the archive built: [builder, entries]
    \* ---- the USB tethering monitor ----
    mon,         \* the monitor's fields and the locals of monitor_connection
    monClock,    \* the time and the number of polls taken
    monSeen      \* what has been observed: polls and callback calls

arVars == <<arMembers, arFile, arOffs, arErr, arWriter, arRead, arDamage, arPc>>
binVars == <<binOrig, binFile, binLog>>
pkgVars == <<srcDeb, baseDeb, outDir, modDeb, lastRun, runCount, valRun>>
ctlVars == <<ctlFile, ctlCall>>
conVars == <<conWork, conOut, conProc>>
stepVars == <<stepDisk, stepWork, stepRun, stepHist>>
tarVars == <<tarTree, tarHost, tarOut>>
monVars == <<mon, monClock, monSeen>>
vars == <<arVars, binVars, pkgVars, ctlVars, conVars, stepVars, tarVars, monVars>>

----------------------------------------------------------------------------
(* Generic byte-string helpers (Python built-ins used by the code).        *)

Min(a, b) == IF a <= b THEN a ELSE b

\* a local variable: Body evaluated with the value bound to its parameter
Bind(value, Body(_)) == Body(value)

\* s[:n]
Take(s, n) == SubSeq(s, 1, Min(n, Len(s)))

\* s[a:b] for 0 <= a <= b
Slice(s, a, b) == SubSeq(s, a + 1, Min(b, Len(s)))

\* k space characters
Spaces(k) == [i \in 1..k |-> 32]

\* str.ljust(w): pad on the right with spaces, never truncate
Ljust(s, w) == IF Len(s) >= w THEN s ELSE s \o Spaces(w - Len(s))

\* str.isspace() for one ASCII character (the set str.strip() removes)
IsSpace(b) == b \in {9, 10, 11, 12, 13, 28, 29, 30, 31, 32}

IsDigit(b) == b >= 48 /\ b <= 57

RECURSIVE LStrip(_)
LStrip(s) == IF s # <<>> /\ IsSpace(Head(s)) THEN LStrip(Tail(s)) ELSE s

RECURSIVE RStrip(_)
RStrip(s) ==
    IF s # <<>> /\ IsSpace(s[Len(s)]) THEN RStrip(SubSeq(s, 1, Len(s) - 1)) ELSE s

\* str.strip()
Strip(s) == RStrip(LStrip(s))

\* str.rstrip('/')
RECURSIVE RStripSlash(_)
RStripSlash(s) ==
    IF s # <<>> /\ s[Len(s)] = 47 THEN RStripSlash(SubSeq(s, 1, Len(s) - 1)) ELSE s

\* str(n) for n >= 0
RECURSIVE StrOfNat(_)
StrOfNat(n) ==
    IF n < 10 THEN <<48 + n>> ELSE StrOfNat(n \div 10) \o <<48 + (n % 10)>>

\* value of a sequence of decimal digits
RECURSIVE DigitsValue(_)
DigitsValue(ds) ==
    IF ds = <<>> THEN 0
    ELSE 10 * DigitsValue(SubSeq(ds, 1, Len(ds) - 1)) + (ds[Len(ds)] - 48)

\* int(txt) for an ASCII text: optional sign, decimal digits, single
\* underscores between digits; anything else raises ValueError (ok = FALSE).
ParseInt(txt) ==
    LET stxt   == Strip(txt)
        signed == stxt # <<>> /\ stxt[1] \in {43, 45}
        body   == IF signed THEN Tail(stxt) ELSE stxt
        wellFormed ==
            /\ body # <<>>
            /\ \A i \in 1..Len(body) : IsDigit(body[i]) \/ body[i] = 95
            /\ IsDigit(body[1]) /\ IsDigit(body[Len(body)])
            /\ \A i \in 1..(Len(body) - 1) : ~(body[i] = 95 /\ body[i + 1] = 95)
        mag    == DigitsValue(SelectSeq(body, IsDigit))
    IN  [ok  |-> wellFormed,
         val |-> IF ~wellFormed THEN 0
                 ELSE IF signed /\ stxt[1] = 45 THEN 0 - mag ELSE mag]

\* Python's n % 2 (the result is 0 or 1 also for negative n)
PyMod2(n) == IF n >= 0 THEN n % 2 ELSE (0 - n) % 2

\* str.encode("ascii") / bytes.decode("ascii") succeed iff every code is < 128
IsAscii(s) == \A i \in 1..Len(s) : s[i] < 128

\* bytes.decode("ascii", "ignore"): undecodable bytes are dropped
IsAsciiByte(b) == b < 128
DecodeIgnore(s) == SelectSeq(s, IsAsciiByte)

----------------------------------------------------------------------------
(* Container codec: writers.                                               *)

\* b"!<arch>\n"
AR_MAGIC == <<33, 60, 97, 114, 99, 104, 62, 10>>

\* (a writer that puts the size before the mode field)
ArHeaderTextSwapped(nameField, size) ==
    nameField \o Ljust(<<48>>, 12) \o Ljust(<<48>>, 6) \o Ljust(<<48>>, 6)
        \o Ljust(StrOfNat(size), 10) \o Ljust(<<49, 48, 48, 54, 52, 52>>, 8)
        \o <<96, 10>>

\* The 60-byte header text both _add_ar_member copies build:
\* name.ljust(16) + "0".ljust(12) + "0".ljust(6) + "0".ljust(6)
\*   + "100644".ljust(8) + str(len(content)).ljust(10) + "`\n"
ArHeaderText(nameField, size) ==
    nameField \o Ljust(<<48>>, 12) \o Ljust(<<48>>, 6) \o Ljust(<<48>>, 6)
        \o Ljust(<<49, 48, 48, 54, 52, 52>>, 8) \o Ljust(StrOfNat(size), 10)
        \o <<96, 10>>

\* the padding rule of every writer: one "\n" after odd-length content
ArPadBuggy(content) == IF Len(content) % 2 = 0 THEN <<10>> ELSE <<>>
ArPad(content) == IF Len(content) % 2 = 1 THEN <<10>> ELSE <<>>

\* deb_packer._add_ar_member(ar_file, name, content) on a file holding `out`
packer_add_ar_member(out, name, content) ==
    LET header == ArHeaderText(Ljust(name, 16), Len(content)) IN
    IF Len(name) > 16 THEN [err |-> "NameTooLong", out |-> out]
    ELSE IF ~IsAscii(header) THEN [err |-> "Encode", out |-> out]
    ELSE IF Len(header) # 60 THEN [err |-> "HeaderNot60", out |-> out]
    ELSE [err |-> "none", out |-> out \o header \o content \o ArPad(content)]

\* change_maintainer._add_ar_member: a second copy of the same code
cm_add_ar_member(out, name, content) ==
    LET header == ArHeaderText(Ljust(name, 16), Len(content)) IN
    IF Len(name) > 16 THEN [err |-> "NameTooLong", out |-> out]
    ELSE IF ~IsAscii(header) THEN [err |-> "Encode", out |-> out]
    ELSE IF Len(header) # 60 THEN [err |-> "HeaderNot60", out |-> out]
    ELSE [err |-> "none", out |-> out \o header \o content \o ArPad(content)]

\* DebIPChanger._assemble_deb.add: f"{name:<16}"[:16] truncates, never raises
\* on the length of the name
assemble_add(out, name, content) ==
    LET header == ArHeaderText(Take(Ljust(name, 16), 16), Len(content)) IN
    IF ~IsAscii(header) THEN [err |-> "Encode", out |-> out]
    ELSE [err |-> "none", out |-> out \o header \o content \o ArPad(content)]

ArWriters == {"deb_packer", "change_maintainer", "ip_changer"}

add_member(w, out, name, content) ==
    CASE w = "deb_packer"        -> packer_add_ar_member(out, name, content)
      [] w = "change_maintainer" -> cm_add_ar_member(out, name, content)
      [] w = "ip_changer"        -> assemble_add(out, name, content)

\* The member loop of a writer: each add appends to the open file; an
\* exception leaves what was written before it on disk.
RECURSIVE WriteMembers(_, _, _, _)
WriteMembers(w, members, out, offs) ==
    IF members = <<>> THEN [err |-> "none", out |-> out, offs |-> offs]
    ELSE LET m == Head(members)
             r == add_member(w, out, m.name, m.content)
         IN  IF r.err # "none" THEN [err |-> r.err, out |-> r.out, offs |-> offs]
             ELSE WriteMembers(w, Tail(members), r.out, Append(offs, Len(out)))

\* write_deb / _assemble_deb as a container writer: open(path, "wb"),
\* write the global magic, then add the members in the caller's order.
WriteAr(w, members) == WriteMembers(w, members, AR_MAGIC, <<>>)

----------------------------------------------------------------------------
(* Container codec: readers.                                               *)

\* f.read(n) at position pos: n < 0 reads to the end, otherwise at most n bytes
FRead(bytes, pos, n) ==
    IF n < 0 THEN SubSeq(bytes, pos + 1, Len(bytes))
    ELSE SubSeq(bytes, pos + 1, Min(pos + n, Len(bytes)))

ValidateReaderOpts == [ignore |-> FALSE, rstripSlash |-> FALSE, blankZero |-> TRUE]
IpChangerReaderOpts == [ignore |-> TRUE, rstripSlash |-> TRUE, blankZero |-> TRUE]
DebrandReaderOpts == [ignore |-> FALSE, rstripSlash |-> FALSE, blankZero |-> TRUE]

\* The member loop shared by read_members, _read_ar_members and
\* extract_deb.read_member; opts are the places where the copies differ.
RECURSIVE ar_scan(_, _, _, _)
ar_scan(opts, bytes, pos, acc) ==
    LET hdr == FRead(bytes, pos, 60) IN
    IF hdr = <<>> THEN [err |-> "none", members |-> acc]
    ELSE IF Len(hdr) < 60 THEN [err |-> "Truncated", members |-> <<>>]
    ELSE
      LET nameRaw == Slice(hdr, 0, 16)
          sizeRaw == Slice(hdr, 48, 58)
      IN
      IF ~opts.ignore /\ ~IsAscii(nameRaw) THEN [err |-> "Decode", members |-> <<>>]
      ELSE IF ~opts.ignore /\ ~IsAscii(sizeRaw) THEN [err |-> "Decode", members |-> <<>>]
      ELSE
        LET stripped == Strip(DecodeIgnore(nameRaw))
            name     == IF opts.rstripSlash THEN RStripSlash(stripped) ELSE stripped
            stxt     == Strip(DecodeIgnore(sizeRaw))
            sizeTxt  == IF stxt = <<>> /\ opts.blankZero THEN <<48>> ELSE stxt
            p        == ParseInt(sizeTxt)
        IN
        IF ~p.ok THEN [err |-> "BadSize", members |-> <<>>]
        ELSE
          LET data  == FRead(bytes, pos + 60, p.val)
              after == pos + 60 + Len(data)
              pad   == IF PyMod2(p.val) = 1 THEN Len(FRead(bytes, after, 1)) ELSE 0
          IN  ar_scan(opts, bytes, after + pad,
                      Append(acc, [name |-> name, content |-> data]))

ArReadWith(opts, bytes) ==
    IF FRead(bytes, 0, 8) # AR_MAGIC THEN [err |-> "BadMagic", members |-> <<>>]
    ELSE ar_scan(opts, bytes, 8, <<>>)

\* validate_deb.read_members
read_members(bytes) == ArReadWith(ValidateReaderOpts, bytes)

\* DebIPChanger._read_ar_members
ip_read_ar_members(bytes) == ArReadWith(IpChangerReaderOpts, bytes)

\* the reader inside ios_debrand_end_to_end.extract_deb
debrand_read_members(bytes) == ArReadWith(DebrandReaderOpts, bytes)

\* change_maintainer.extract_ar_member: returns at the first member whose
\* name matches; int() is applied to the stripped size text as it is.
RECURSIVE cm_scan(_, _, _)
cm_scan(bytes, member_name, pos) ==
    LET header == FRead(bytes, pos, 60) IN
    IF header = <<>> THEN [err |-> "NotFound", content |-> <<>>]
    ELSE IF Len(header) # 60 THEN [err |-> "Truncated", content |-> <<>>]
    ELSE IF ~IsAscii(Slice(header, 0, 16)) \/ ~IsAscii(Slice(header, 48, 58))
         THEN [err |-> "Decode", content |-> <<>>]
    ELSE
      LET name == Strip(Slice(header, 0, 16))
          p    == ParseInt(Strip(Slice(header, 48, 58)))
      IN
      IF ~p.ok THEN [err |-> "BadSize", content |-> <<>>]
      ELSE
        LET content == FRead(bytes, pos + 60, p.val)
            after   == pos + 60 + Len(content)
            pad     == IF PyMod2(p.val) = 1 THEN Len(FRead(bytes, after, 1)) ELSE 0
        IN  IF name = member_name THEN [err |-> "none", content |-> content]
            ELSE cm_scan(bytes, member_name, after + pad)

extract_ar_member(bytes, member_name) ==
    IF FRead(bytes, 0, 8) # AR_MAGIC THEN [err |-> "BadMagic", content |-> <<>>]
    ELSE cm_scan(bytes, member_name, 8)

ArReaders == {"validate_deb", "ip_changer", "debrand"}

ReadAr(r, bytes) ==
    CASE r = "validate_deb" -> read_members(bytes)
      [] r = "ip_changer"   -> ip_read_ar_members(bytes)
      [] r = "debrand"      -> debrand_read_members(bytes)

----------------------------------------------------------------------------
(* Container codec: the state machine.  A caller builds a Container, one   *)
(* writer writes it to a file, and one reader reads the file back.  In     *)
(* SpecArRead the file may be damaged between the two.                     *)

MaxMembers == 2

\* member names offered to the writers: "a", "a ", " a", "b/" and the
\* 17-byte "data.tar.lzma.bak"
ArNames ==
    { <<97>>, <<97, 32>>, <<32, 97>>, <<98, 47>>,
      <<100, 97, 116, 97, 46, 116, 97, 114, 46, 108, 122, 109, 97, 46, 98, 97, 107>> }

\* member contents offered to the writers: b"", b"\n", b"x\n"
ArContents == { <<>>, <<10>>, <<120, 10>> }

\* texts written over a size field by ArSetSizeField:
\* blank, "-1", "x", "1x" and "+1"
ArSizeTexts ==
    [blank |-> <<>>, negative |-> <<45, 49>>, letters |-> <<120>>,
     mixed |-> <<49, 120>>, plus |-> <<43, 49>>]

\* names looked up by extract_ar_member: "a" and "b/"
ArLookupNames == { <<97>>, <<98, 47>> }

NoRead == [reader |-> "none", err |-> "none", members |-> <<>>]

ArInit ==
    /\ arMembers = <<>>
    /\ arFile = <<>>
    /\ arOffs = <<>>
    /\ arErr = "none"
    /\ arWriter = "none"
    /\ arRead = NoRead
    /\ arDamage = "none"
    /\ arPc = "build"

ArOthersUnchanged == UNCHANGED <<binVars, pkgVars, ctlVars, conVars, stepVars, tarVars, monVars>>

\* the caller appends one member to the Container it is going to write
ArAddMember ==
    /\ arPc = "build"
    /\ Len(arMembers) < MaxMembers
    /\ \E name \in ArNames, content \in ArContents :
          arMembers' = Append(arMembers, [name |-> name, content |-> content])
    /\ UNCHANGED <<arFile, arOffs, arErr, arWriter, arRead, arDamage, arPc>>
    /\ ArOthersUnchanged

\* one writer writes the Container
ArWrite ==
    /\ arPc = "build"
    /\ \E w \in ArWriters :
          LET r == WriteAr(w, arMembers) IN
          /\ arFile' = r.out
          /\ arOffs' = r.offs
          /\ arErr' = r.err
          /\ arWriter' = w
    /\ arPc' = "written"
    /\ UNCHANGED <<arMembers, arRead, arDamage>>
    /\ ArOthersUnchanged

\* read_members / _read_ar_members / extract_deb's reader on the file
ArReadMembers ==
    /\ arPc \in {"written", "corrupt"}
    /\ \E r \in ArReaders :
          LET got == ReadAr(r, arFile) IN
          arRead' = [reader |-> r, err |-> got.err, members |-> got.members]
    /\ arPc' = "read"
    /\ UNCHANGED <<arMembers, arFile, arOffs, arErr, arWriter, arDamage>>
    /\ ArOthersUnchanged

\* change_maintainer.extract_ar_member(file, member_name)
ArExtractMember ==
    /\ arPc \in {"written", "corrupt"}
    /\ \E n \in ArLookupNames :
          LET got == extract_ar_member(arFile, n) IN
          arRead' = [reader |-> "extract_ar_member", err |-> got.err,
                     members |-> <<[name |-> n, content |-> got.content]>>]
    /\ arPc' = "read"
    /\ UNCHANGED <<arMembers, arFile, arOffs, arErr, arWriter, arDamage>>
    /\ ArOthersUnchanged

\* the first byte of the global magic is changed ("!" -> "?")
ArBreakMagic ==
    /\ arPc = "written" /\ arErr = "none"
    /\ arFile' = [arFile EXCEPT ![1] = 63]
    /\ arDamage' = "magic"
    /\ arPc' = "corrupt"
    /\ UNCHANGED <<arMembers, arOffs, arErr, arWriter, arRead>>
    /\ ArOthersUnchanged

\* the file is cut inside the header of member i: 1 or 59 bytes of it remain
ArTruncateHeader ==
    /\ arPc = "written" /\ arErr = "none"
    /\ \E i \in 1..Len(arOffs), k \in {1, 59} :
          arFile' = Take(arFile, arOffs[i] + k)
    /\ arDamage' = "truncatedHeader"
    /\ arPc' = "corrupt"
    /\ UNCHANGED <<arMembers, arOffs, arErr, arWriter, arRead>>
    /\ ArOthersUnchanged

\* the 10-byte size field of member i is overwritten with another text
ArSetSizeField ==
    /\ arPc = "written" /\ arErr = "none"
    /\ \E i \in 1..Len(arOffs), t \in DOMAIN ArSizeTexts :
          /\ arFile' = [j \in 1..Len(arFile) |->
                          IF j > arOffs[i] + 48 /\ j <= arOffs[i] + 58
                          THEN Ljust(ArSizeTexts[t], 10)[j - (arOffs[i] + 48)]
                          ELSE arFile[j]]
          /\ arDamage' = t
    /\ arPc' = "corrupt"
    /\ UNCHANGED <<arMembers, arOffs, arErr, arWriter, arRead>>
    /\ ArOthersUnchanged

ArNext == ArAddMember \/ ArWrite \/ ArReadMembers \/ ArExtractMember

ArDamage == ArBreakMagic \/ ArTruncateHeader \/ ArSetSizeField


----------------------------------------------------------------------------
(* Container codec: properties.                                            *)

NamesOf(members) == [i \in 1..Len(members) |-> members[i].name]
ContentsOf(members) == [i \in 1..Len(members) |-> members[i].content]

\* a name the space-padded name field can carry back unchanged
NoOuterSpace(n) == n = <<>> \/ (~IsSpace(n[1]) /\ ~IsSpace(n[Len(n)]))
NoTrailingSlash(n) == n = <<>> \/ n[Len(n)] # 47

WrittenAndReadBack ==
    /\ arPc = "read"
    /\ arRead.reader \in ArReaders
    /\ arErr = "none"
    /\ \A i \in 1..Len(arMembers) : Len(arMembers[i].name) <= 16

\* C3 as stated: for any members whose names are at most 16 bytes, reading
\* the bytes the writer produced yields the same names, sizes, contents and
\* order.
C3_RoundTripAnyName ==
    WrittenAndReadBack => (arRead.err = "none" /\ arRead.members = arMembers)

\* C3 (amended): the round trip holds for members whose names are at most 16
\* bytes, neither start nor end with whitespace and, for the reader that
\* strips trailing slashes (DebIPChanger._read_ar_members), do not end in "/".
C3_RoundTrip ==
    ( /\ WrittenAndReadBack
      /\ \A i \in 1..Len(arMembers) :
            /\ NoOuterSpace(arMembers[i].name)
            /\ arRead.reader = "ip_changer" => NoTrailingSlash(arMembers[i].name) )
    => (arRead.err = "none" /\ arRead.members = arMembers)

C3_Witness ==
    /\ WrittenAndReadBack
    /\ Len(arMembers) = 2
    /\ \A i \in 1..2 : NoOuterSpace(arMembers[i].name)
    /\ Len(arMembers[1].content) = 1
    /\ arMembers[1].name = <<98, 47>>
    /\ arRead.reader = "validate_deb"
    /\ arRead.members = arMembers

\* the first member the lookup reader compares equal to member_name
FirstNamed(members, n) ==
    LET hits == {i \in 1..Len(members) : Strip(Take(members[i].name, 16)) = n}
    IN  IF hits = {} THEN 0 ELSE CHOOSE i \in hits : \A j \in hits : i <= j

\* C4: in the written bytes, a member followed by another member occupies
\* 60 + size bytes when size is even and 60 + size + 1 when it is odd (each
\* recorded offset is the start of a header carrying that member's size),
\* and no reader returns the padding byte as content.
C4_Padding ==
    (arPc \in {"written", "read"} /\ arErr = "none") =>
      /\ Len(arOffs) = Len(arMembers)
      /\ \A i \in 1..Len(arMembers) :
            LET size == Len(arMembers[i].content) IN
            /\ ParseInt(Slice(arFile, arOffs[i] + 48, arOffs[i] + 58)).val = size
            /\ Slice(arFile, arOffs[i] + 58, arOffs[i] + 60) = <<96, 10>>
            /\ i < Len(arMembers) =>
                  arOffs[i + 1] - arOffs[i] =
                      IF size % 2 = 1 THEN 60 + size + 1 ELSE 60 + size
      /\ (arPc = "read" /\ arRead.reader \in ArReaders) =>
            /\ arRead.err = "none"
            /\ ContentsOf(arRead.members) = ContentsOf(arMembers)
      /\ (arPc = "read" /\ arRead.reader = "extract_ar_member"
            /\ arRead.err = "none") =>
            LET k == FirstNamed(arMembers, arRead.members[1].name) IN
            /\ k # 0
            /\ arRead.members[1].content = arMembers[k].content

C4_Witness ==
    /\ arPc = "read" /\ arErr = "none"
    /\ arRead.reader \in ArReaders
    /\ Len(arMembers) = 2
    /\ Len(arMembers[1].content) = 1
    /\ arOffs[2] - arOffs[1] = 62
    /\ arRead.members[1].content = arMembers[1].content

\* C5: a writer given a member name longer than 16 bytes fails with the
\* name-too-long error, and has written no byte of the output file.
C5_NameTooLongBeforeWrite ==
    (arPc = "written" /\ \E i \in 1..Len(arMembers) : Len(arMembers[i].name) > 16)
    => (arErr = "NameTooLong" /\ arFile = <<>>)

\* C6: a file whose magic is wrong, whose header is cut short, or whose size
\* field is not a non-negative decimal (blank, negative, not a number) is
\* rejected by every reader.
C6_FormatErrors ==
    (arPc = "read"
       /\ arDamage \in {"magic", "truncatedHeader", "blank", "negative", "letters", "mixed"})
    => arRead.err # "none"

----------------------------------------------------------------------------
(* Binary patcher: bytes.replace / bytes.count / the `in` operator.        *)

OccursAt(data, pat, i) ==
    i + Len(pat) - 1 <= Len(data) /\ SubSeq(data, i, i + Len(pat) - 1) = pat

\* pat in data
Contains(data, pat) ==
    pat = <<>> \/ \E i \in 1..Len(data) : OccursAt(data, pat, i)

\* data.replace(old, new) from position i on: leftmost, non-overlapping
RECURSIVE ReplaceFrom(_, _, _, _)
ReplaceFrom(data, old, new, i) ==
    IF i > Len(data) THEN <<>>
    ELSE IF OccursAt(data, old, i) THEN new \o ReplaceFrom(data, old, new, i + Len(old))
    ELSE <<data[i]>> \o ReplaceFrom(data, old, new, i + 1)

\* data.replace(old, new); with old empty, new is put around every byte
RECURSIVE Interleave(_, _)
Interleave(data, new) ==
    IF data = <<>> THEN new ELSE new \o <<Head(data)>> \o Interleave(Tail(data), new)

Replace(data, old, new) ==
    IF old = <<>> THEN Interleave(data, new) ELSE ReplaceFrom(data, old, new, 1)

\* data.count(pat) from position i on: non-overlapping occurrences
RECURSIVE CountFrom(_, _, _)
CountFrom(data, pat, i) ==
    IF i > Len(data) THEN 0
    ELSE IF OccursAt(data, pat, i) THEN 1 + CountFrom(data, pat, i + Len(pat))
    ELSE CountFrom(data, pat, i + 1)

Count(data, pat) == IF pat = <<>> THEN Len(data) + 1 ELSE CountFrom(data, pat, 1)

----------------------------------------------------------------------------
(* Binary patcher: the three patch functions, as functions of the file's   *)
(* bytes.  Each returns the bytes the file holds afterwards in `data`.     *)

\* (replace_ip_in_binary without its length check)
replace_ip_unchecked(data, old_ip, new_ip) ==
    LET hit1 == Contains(data, old_ip)
        d1   == IF hit1 THEN Replace(data, old_ip, new_ip) ELSE data
        d2   == IF Contains(d1, old_ip \o <<0>>)
                THEN Replace(d1, old_ip \o <<0>>, new_ip \o <<0>>) ELSE d1
    IN  [ret |-> hit1 \/ d2 # d1, err |-> "none", data |-> d2,
         replacements |-> IF hit1 THEN Count(d1, new_ip) ELSE 0]

\* DebIPChanger.replace_ip_in_binary(file_path, old_ip, new_ip)
replace_ip_in_binary(data, old_ip, new_ip) ==
    IF Len(old_ip) # Len(new_ip)
    THEN [ret |-> FALSE, err |-> "LengthMismatch", data |-> data, replacements |-> 0]
    ELSE IF ~IsAscii(old_ip) \/ ~IsAscii(new_ip)
    THEN [ret |-> FALSE, err |-> "Encode", data |-> data, replacements |-> 0]
    ELSE
      LET old_bytes == old_ip
          new_bytes == new_ip
          hit1  == Contains(data, old_bytes)
          d1    == IF hit1 THEN Replace(data, old_bytes, new_bytes) ELSE data
          n1    == IF hit1 THEN Count(d1, new_bytes) ELSE 0
          old_null == old_bytes \o <<0>>
          new_null == new_bytes \o <<0>>
          hit2  == Contains(d1, old_null)
          d2    == IF hit2 THEN Replace(d1, old_null, new_null) ELSE d1
          replacements == IF hit2 THEN n1 + 1 ELSE n1
      IN  IF replacements > 0
          THEN [ret |-> TRUE, err |-> "none", data |-> d2, replacements |-> replacements]
          ELSE [ret |-> FALSE, err |-> "none", data |-> data, replacements |-> replacements]

\* ios_debrand_end_to_end.BRAND_PATTERNS, in the dict's order:
\*   b'www.bkatm.com'         -> b'localhost    '
\*   b'https://www.bkatm.com' -> b'http://localhost     '
\*   b'Login (www.bkatm.com)' -> b'Login                 '
BRAND_PATTERNS ==
    << [old |-> <<119, 119, 119, 46, 98, 107, 97, 116, 109, 46, 99, 111, 109>>,
        new |-> <<108, 111, 99, 97, 108, 104, 111, 115, 116, 32, 32, 32, 32>>],
       [old |-> <<104, 116, 116, 112, 115, 58, 47, 47, 119, 119, 119, 46, 98, 107,
                  97, 116, 109, 46, 99, 111, 109>>,
        new |-> <<104, 116, 116, 112, 58, 47, 47, 108, 111, 99, 97, 108, 104, 111,
                  115, 116, 32, 32, 32, 32, 32>>],
       [old |-> <<76, 111, 103, 105, 110, 32, 40, 119, 119, 119, 46, 98, 107, 97,
                  116, 109, 46, 99, 111, 109, 41>>,
        new |-> <<76, 111, 103, 105, 110, 32, 32, 32, 32, 32, 32, 32, 32, 32, 32,
                  32, 32, 32, 32, 32, 32, 32>>] >>

\* the loop of patch_branding over (old, new) pairs
RECURSIVE patch_loop(_, _, _)
patch_loop(patterns, data, replaced) ==
    IF patterns = <<>> THEN [err |-> "none", data |-> data, replaced |-> replaced]
    ELSE LET old == Head(patterns).old
             new == Head(patterns).new
         IN  IF Contains(data, old)
             THEN IF Len(old) # Len(new)
                  THEN [err |-> "LengthMismatch", data |-> data, replaced |-> replaced]
                  ELSE patch_loop(Tail(patterns), Replace(data, old, new),
                                  replaced + Count(data, old))
             ELSE patch_loop(Tail(patterns), data, replaced)

\* ios_debrand_end_to_end.patch_branding(binary_path)
patch_branding(data) ==
    LET r == patch_loop(BRAND_PATTERNS, data, 0) IN
    [ret  |-> r.replaced,
     err  |-> r.err,
     data |-> IF r.err = "none" /\ r.replaced > 0 THEN r.data ELSE data]

\* The patch list of DebIPChanger.apply_latency_patches: (offset, old, new).
LATENCY_PATCHES ==
    << [offset |-> 251516,  old |-> <<8, 7, 128, 82>>,    new |-> <<40, 0, 128, 82>>],
       [offset |-> 251536,  old |-> <<8, 15, 128, 82>>,   new |-> <<40, 0, 128, 82>>],
       [offset |-> 297052,  old |-> <<8, 7, 128, 82>>,    new |-> <<40, 0, 128, 82>>],
       [offset |-> 297072,  old |-> <<8, 15, 128, 82>>,   new |-> <<40, 0, 128, 82>>],
       [offset |-> 326212,  old |-> <<8, 7, 128, 82>>,    new |-> <<40, 0, 128, 82>>],
       [offset |-> 326232,  old |-> <<8, 15, 128, 82>>,   new |-> <<40, 0, 128, 82>>],
       [offset |-> 1547600, old |-> <<8, 7, 128, 82>>,    new |-> <<40, 0, 128, 82>>],
       [offset |-> 1547620, old |-> <<8, 15, 128, 82>>,   new |-> <<40, 0, 128, 82>>],
       [offset |-> 1593412, old |-> <<8, 7, 128, 82>>,    new |-> <<40, 0, 128, 82>>],
       [offset |-> 1593432, old |-> <<8, 15, 128, 82>>,   new |-> <<40, 0, 128, 82>>],
       [offset |-> 1622616, old |-> <<8, 7, 128, 82>>,    new |-> <<40, 0, 128, 82>>],
       [offset |-> 1622636, old |-> <<8, 15, 128, 82>>,   new |-> <<40, 0, 128, 82>>],
       [offset |-> 299092,  old |-> <<8, 125, 128, 82>>,  new |-> <<40, 0, 128, 82>>],
       [offset |-> 299108,  old |-> <<2, 125, 128, 210>>, new |-> <<34, 0, 128, 210>>],
       [offset |-> 328704,  old |-> <<8, 125, 128, 82>>,  new |-> <<40, 0, 128, 82>>],
       [offset |-> 328720,  old |-> <<2, 125, 128, 210>>, new |-> <<34, 0, 128, 210>>],
       [offset |-> 337116,  old |-> <<8, 125, 128, 82>>,  new |-> <<40, 0, 128, 82>>],
       [offset |-> 337132,  old |-> <<2, 125, 128, 210>>, new |-> <<34, 0, 128, 210>>],
       [offset |-> 394776,  old |-> <<3, 250, 128, 82>>,  new |-> <<35, 0, 128, 82>>],
       [offset |-> 1717868, old |-> <<10, 125, 128, 82>>, new |-> <<42, 0, 128, 82>>],
       [offset |-> 1824780, old |-> <<8, 125, 128, 82>>,  new |-> <<40, 0, 128, 82>>] >>

\* The binary the table is written for is 1.8 MB long; the model's files are
\* a few dozen bytes.  The model keeps rows 11..14 of the table, in the
\* table's order and with the table's bytes, and moves each to 4 * (its rank
\* by offset among the kept rows): the rows stay disjoint and in the same
\* relative position, and the list stays unsorted (rows 13 and 14 lie below
\* rows 11 and 12), as in the source.
ModelPatchRows == <<11, 12, 13, 14>>

ModelOffset(k) ==
    4 * Cardinality({ j \in 1..Len(ModelPatchRows) :
                        LATENCY_PATCHES[ModelPatchRows[j]].offset
                            < LATENCY_PATCHES[k].offset })

patches ==
    [i \in 1..Len(ModelPatchRows) |->
        [offset |-> ModelOffset(ModelPatchRows[i]),
         old    |-> LATENCY_PATCHES[ModelPatchRows[i]].old,
         new    |-> LATENCY_PATCHES[ModelPatchRows[i]].new]]

\* data[a:b] = new on a bytearray
SliceAssign(data, a, b, new) ==
    SubSeq(data, 1, a) \o new \o SubSeq(data, b + 1, Len(data))

\* (a loop body that writes without comparing the bytes it finds)
ApplyOffsetPatchBlind(data, p) ==
    IF p.offset + Len(p.old) > Len(data) THEN [data |-> data, applied |-> FALSE]
    ELSE [data |-> SliceAssign(data, p.offset, p.offset + Len(p.old), p.new),
          applied |-> TRUE]

\* (a loop body that compares only the first byte)
ApplyOffsetPatchFirstByte(data, p) ==
    IF p.offset + Len(p.old) > Len(data) THEN [data |-> data, applied |-> FALSE]
    ELSE IF data[p.offset + 1] = p.old[1]
         THEN [data |-> SliceAssign(data, p.offset, p.offset + Len(p.old), p.new),
               applied |-> TRUE]
         ELSE [data |-> data, applied |-> FALSE]

\* one iteration of the loop of apply_latency_patches, on the bytearray
ApplyOffsetPatch(data, p) ==
    IF p.offset + Len(p.old) > Len(data) THEN [data |-> data, applied |-> FALSE]
    ELSE LET actual == Slice(data, p.offset, p.offset + Len(p.old)) IN
         IF actual = p.old
         THEN [data |-> SliceAssign(data, p.offset, p.offset + Len(p.old), p.new),
               applied |-> TRUE]
         ELSE [data |-> data, applied |-> FALSE]

RECURSIVE latency_loop(_, _, _)
latency_loop(ps, data, applied_count) ==
    IF ps = <<>> THEN [data |-> data, applied_count |-> applied_count]
    ELSE LET r == ApplyOffsetPatch(data, Head(ps)) IN
         latency_loop(Tail(ps), r.data,
                      IF r.applied THEN applied_count + 1 ELSE applied_count)

\* DebIPChanger.apply_latency_patches(file_path): the file is rewritten only
\* when at least one patch applied
apply_latency_patches(data) ==
    LET r == latency_loop(patches, data, 0) IN
    [ret   |-> r.applied_count > 0,
     err   |-> "none",
     count |-> r.applied_count,
     data  |-> IF r.applied_count > 0 THEN r.data ELSE data]

----------------------------------------------------------------------------
(* Binary patcher: the state machine.  A file is given and the three patch *)
(* functions are called on it, in any order.                               *)

MaxChunks == 2
MaxOps == 2

\* b"192.168.1.91", the address find_current_ip looks for first
BASE_IP == <<49, 57, 50, 46, 49, 54, 56, 46, 49, 46, 57, 49>>

\* b"10.10.10.100", an address of the length of the base address
NEW_IP == <<49, 48, 46, 49, 48, 46, 49, 48, 46, 49, 48, 48>>

\* What the files are made of: a zero byte, the expected words of the kept
\* patch rows 13, 14 and 12, the base address with and without a terminating
\* zero, the address a request asks for, and the first and third branding
\* literals.
PatchChunks ==
    { <<0>>,
      LATENCY_PATCHES[13].old, LATENCY_PATCHES[14].old, LATENCY_PATCHES[12].old,
      BASE_IP, BASE_IP \o <<0>>, NEW_IP,
      BRAND_PATTERNS[1].old, BRAND_PATTERNS[3].old }

RECURSIVE FilesOf(_)
FilesOf(n) ==
    IF n = 0 THEN { <<>> }
    ELSE LET shorter == FilesOf(n - 1) IN
         shorter \cup { f \o c : f \in shorter, c \in PatchChunks }

BinFiles == FilesOf(MaxChunks)

\* (old_ip, new_ip) requests: b"10.10.10.100" has the length of the base
\* address, b"192.168.1.9" is one byte shorter
IpRequests ==
    { [old |-> BASE_IP, new |-> NEW_IP],
      [old |-> BASE_IP, new |-> <<49, 57, 50, 46, 49, 54, 56, 46, 49, 46, 57>>] }

BinInit ==
    /\ binFile \in BinFiles
    /\ binOrig = binFile
    /\ binLog = <<>>

BinIdle ==
    /\ binFile = <<>>
    /\ binOrig = <<>>
    /\ binLog = <<>>

BinOthersUnchanged == UNCHANGED <<arVars, pkgVars, ctlVars, conVars, stepVars, tarVars, monVars>>

BinLogged(op, requests, r, ok, count) ==
    /\ binFile' = r.data
    /\ binLog' = Append(binLog, [op |-> op, requests |-> requests, ok |-> ok,
                                 count |-> count, err |-> r.err, after |-> r.data])
    /\ UNCHANGED binOrig
    /\ BinOthersUnchanged

BinReplaceIp ==
    /\ Len(binLog) < MaxOps
    /\ \E q \in IpRequests :
          LET r == replace_ip_in_binary(binFile, q.old, q.new) IN
          BinLogged("replace_ip_in_binary", <<q>>, r, r.ret, r.replacements)

BinPatchBranding ==
    /\ Len(binLog) < MaxOps
    /\ LET r == patch_branding(binFile) IN
       BinLogged("patch_branding", BRAND_PATTERNS, r, r.err = "none", r.ret)

BinApplyLatency ==
    /\ Len(binLog) < MaxOps
    /\ LET r == apply_latency_patches(binFile) IN
       BinLogged("apply_latency_patches",
                 [i \in 1..Len(patches) |-> [old |-> patches[i].old, new |-> patches[i].new]],
                 r, r.ret, r.count)

BinNext == BinReplaceIp \/ BinPatchBranding \/ BinApplyLatency

----------------------------------------------------------------------------
(* Binary patcher: properties.                                             *)

\* the file's bytes before call i
BinBefore(i) == IF i = 1 THEN binOrig ELSE binLog[i - 1].after

\* C7: a literal substitution whose request holds an (old, new) pair of
\* different lengths fails with the patch-length error and leaves the file
\* as it was, in replace_ip_in_binary and in patch_branding.
C7_LengthMismatchFails ==
    \A i \in 1..Len(binLog) :
        ( /\ binLog[i].op \in {"replace_ip_in_binary", "patch_branding"}
          /\ \E k \in 1..Len(binLog[i].requests) :
                Len(binLog[i].requests[k].old) # Len(binLog[i].requests[k].new) )
        => (binLog[i].err = "LengthMismatch" /\ binLog[i].after = BinBefore(i))

\* every row of the source's patch table replaces 4 bytes by 4 other bytes,
\* and no two rows touch the same byte
PatchTableDisjoint ==
    \A a, b \in 1..Len(LATENCY_PATCHES) :
        LET p == LATENCY_PATCHES[a]
            q == LATENCY_PATCHES[b]
        IN  /\ Len(p.old) = Len(p.new)
            /\ p.old # p.new
            /\ a # b => (p.offset + Len(p.old) <= q.offset
                           \/ q.offset + Len(q.old) <= p.offset)

\* C8: whatever patch calls were made on the file, successful or not, its
\* length is the original length.
C8_LengthPreserved ==
    /\ Len(binFile) = Len(binOrig)
    /\ \A i \in 1..Len(binLog) : Len(binLog[i].after) = Len(binOrig)
    /\ PatchTableDisjoint

C8_Witness ==
    /\ Len(binLog) = 2
    /\ binLog[1].op = "replace_ip_in_binary" /\ binLog[1].ok
    /\ binLog[2].op = "patch_branding" /\ binLog[2].count > 0
    /\ binLog[2].after # binLog[1].after
    /\ binLog[1].after # binOrig

PatchMatches(data, p) ==
    /\ p.offset + Len(p.old) <= Len(data)
    /\ Slice(data, p.offset, p.offset + Len(p.old)) = p.old

\* C9: when the patch list is applied twice in succession, the second call
\* reports nothing applied and leaves the bytes of the first call, and the
\* first call reports applied whenever some patch found its expected bytes;
\* the same holds for each single patch applied twice to the file.
C9_ReplayIdempotent ==
    /\ \A i \in 1..(Len(binLog) - 1) :
          ( /\ binLog[i].op = "apply_latency_patches"
            /\ binLog[i + 1].op = "apply_latency_patches" )
          => /\ ~binLog[i + 1].ok
             /\ binLog[i + 1].after = binLog[i].after
             /\ (\E j \in 1..Len(patches) : PatchMatches(BinBefore(i), patches[j]))
                   => binLog[i].ok
    /\ \A j \in 1..Len(patches) :
          LET first  == ApplyOffsetPatch(binFile, patches[j])
              second == ApplyOffsetPatch(first.data, patches[j])
          IN  /\ first.applied <=> PatchMatches(binFile, patches[j])
              /\ ~second.applied
              /\ second.data = first.data

C9_Witness ==
    /\ Len(binLog) = 2
    /\ binLog[1].op = "apply_latency_patches" /\ binLog[1].ok
    /\ binLog[1].count = 2
    /\ binLog[1].after # binOrig
    /\ binLog[2].op = "apply_latency_patches" /\ ~binLog[2].ok
    /\ binLog[2].after = binLog[1].after

\* C11: a literal substitution with old and new of equal length leaves no
\* occurrence of old in the file, and the count it computes is the number of
\* occurrences of old in the file before the call, also when new occurred
\* there already (replace_ip_in_binary; patch_branding for its first
\* literal, the only one of the table that can occur when its turn comes).
C11_ReplacesAllAndCounts ==
    \A i \in 1..Len(binLog) :
        /\ ( /\ binLog[i].op = "replace_ip_in_binary"
             /\ Len(binLog[i].requests[1].old) = Len(binLog[i].requests[1].new) )
           => /\ ~Contains(binLog[i].after, binLog[i].requests[1].old)
              /\ binLog[i].count = Count(BinBefore(i), binLog[i].requests[1].old)
        /\ (binLog[i].op = "patch_branding" /\ binLog[i].err = "none")
           => /\ ~Contains(binLog[i].after, BRAND_PATTERNS[1].old)
              /\ binLog[i].count = Count(BinBefore(i), BRAND_PATTERNS[1].old)

----------------------------------------------------------------------------
(* Inner archives.  The tar block format and the LZMA / gzip bit streams   *)
(* are reduced to what the engine depends on: a tar archive is a list of   *)
(* (path, content) records closed by an end marker, and a compressed       *)
(* stream is its framing header followed by the stored bytes.  The framing *)
(* headers are the real ones.                                              *)

BINARY_REL_PATH == "var/jb/Library/MobileSubstrate/DynamicLibraries/vcamera.dylib"

\* the paths the model's trees hold, and the byte that names each in a record
TreePaths == <<"control", "postinst", BINARY_REL_PATH>>

PathByte(path) == CHOOSE k \in 1..Len(TreePaths) : TreePaths[k] = path

\* tarfile: the archive of a list of files <<[path, content], ...>>
RECURSIVE TarRecords(_)
TarRecords(entries) ==
    IF entries = <<>> THEN <<>>
    ELSE <<PathByte(Head(entries).path), Len(Head(entries).content)>>
            \o Head(entries).content \o TarRecords(Tail(entries))

TarBytes(entries) == TarRecords(entries) \o <<0>>

\* tarfile.open(...).extractall / getmembers: the files of an archive, or
\* ReadError for bytes that are no archive (the empty file included)
RECURSIVE UnTarFrom(_, _, _)
UnTarFrom(bytes, pos, acc) ==
    IF pos + 1 > Len(bytes) THEN [err |-> "ReadError", entries |-> <<>>]
    ELSE IF bytes[pos + 1] = 0 THEN [err |-> "none", entries |-> acc]
    ELSE IF bytes[pos + 1] > Len(TreePaths) \/ pos + 2 > Len(bytes)
              \/ pos + 2 + bytes[pos + 2] > Len(bytes)
         THEN [err |-> "ReadError", entries |-> <<>>]
    ELSE UnTarFrom(bytes, pos + 2 + bytes[pos + 2],
                   Append(acc, [path |-> TreePaths[bytes[pos + 1]],
                                content |-> SubSeq(bytes, pos + 3, pos + 2 + bytes[pos + 2])]))

UnTar(bytes) == UnTarFrom(bytes, 0, <<>>)

\* the first 3 bytes of a gzip stream: 1f 8b 08
GZIP_MAGIC == <<31, 139, 8>>

GzipCompress(raw) == GZIP_MAGIC \o raw

GzipDecompress(bytes) ==
    IF Take(bytes, 3) = GZIP_MAGIC
    THEN [err |-> "none", raw |-> SubSeq(bytes, 4, Len(bytes))]
    ELSE [err |-> "BadGzipFile", raw |-> <<>>]

\* the 13-byte header of an LZMA-alone stream written with preset 6:
\* properties 5d, dictionary size 00 00 80 00, unknown size ff * 8
LZMA_ALONE_HEADER == <<93, 0, 0, 128, 0, 255, 255, 255, 255, 255, 255, 255, 255>>

\* the 6-byte magic of an xz stream: fd 37 7a 58 5a 00
XZ_MAGIC == <<253, 55, 122, 88, 90, 0>>

\* (a compressor left on the lzma module's default format, FORMAT_XZ)
lzma_compress_xz(raw) == XZ_MAGIC \o raw

\* lzma.compress(data, format=lzma.FORMAT_ALONE, preset=6)
lzma_compress_alone(raw) == LZMA_ALONE_HEADER \o raw

\* lzma.decompress(data, format=lzma.FORMAT_ALONE)
lzma_decompress_alone(bytes) ==
    IF Take(bytes, 13) = LZMA_ALONE_HEADER
    THEN [err |-> "none", raw |-> SubSeq(bytes, 14, Len(bytes))]
    ELSE [err |-> "LZMAError", raw |-> <<>>]

\* lzma.decompress(data): FORMAT_AUTO accepts xz and LZMA-alone streams
lzma_decompress_auto(bytes) ==
    IF Take(bytes, 6) = XZ_MAGIC
    THEN [err |-> "none", raw |-> SubSeq(bytes, 7, Len(bytes))]
    ELSE lzma_decompress_alone(bytes)

\* the content of the first file of a tree with that path (<<>> and
\* found = FALSE when there is none)
TreeHas(tree, path) == \E i \in 1..Len(tree) : tree[i].path = path

TreeGet(tree, path) ==
    tree[CHOOSE i \in 1..Len(tree) :
            tree[i].path = path /\ \A j \in 1..(i - 1) : tree[j].path # path].content

\* the tree with the file at `path` rewritten
TreePut(tree, path, content) ==
    [i \in 1..Len(tree) |->
        IF tree[i].path = path THEN [path |-> path, content |-> content] ELSE tree[i]]

----------------------------------------------------------------------------
(* Member names and lookups on a member list <<[name, content], ...>>.     *)

\* "debian-binary", "control.tar.gz", "data.tar.lzma", "data.tar"
N_DEBIAN_BINARY == <<100, 101, 98, 105, 97, 110, 45, 98, 105, 110, 97, 114, 121>>
N_CONTROL_TAR_GZ == <<99, 111, 110, 116, 114, 111, 108, 46, 116, 97, 114, 46, 103, 122>>
N_DATA_TAR_LZMA == <<100, 97, 116, 97, 46, 116, 97, 114, 46, 108, 122, 109, 97>>
N_DATA_TAR == <<100, 97, 116, 97, 46, 116, 97, 114>>

\* b"2.0\n"
DEBIAN_BINARY_2_0 == <<50, 46, 48, 10>>

StartsWith(s, prefix) == Take(s, Len(prefix)) = prefix
EndsWith(s, suffix) ==
    Len(s) >= Len(suffix) /\ SubSeq(s, Len(s) - Len(suffix) + 1, Len(s)) = suffix

\* next(... for n, d in members if n == name): index of the first member with
\* that name, 0 when there is none
IndexOfName(members, name) ==
    LET hits == {i \in 1..Len(members) : members[i].name = name}
    IN  IF hits = {} THEN 0 ELSE CHOOSE i \in hits : \A j \in hits : i <= j

\* next(... for n, d in members if n.startswith(prefix))
IndexOfPrefix(members, prefix) ==
    LET hits == {i \in 1..Len(members) : StartsWith(members[i].name, prefix)}
    IN  IF hits = {} THEN 0 ELSE CHOOSE i \in hits : \A j \in hits : i <= j

----------------------------------------------------------------------------
(* Addresses.                                                              *)

\* s.split(".") : the pieces between the dots
RECURSIVE SplitDots(_, _)
SplitDots(s, piece) ==
    IF s = <<>> THEN <<piece>>
    ELSE IF Head(s) = 46 THEN <<piece>> \o SplitDots(Tail(s), <<>>)
    ELSE SplitDots(Tail(s), Append(piece, Head(s)))

\* one octet of ipaddress.IPv4Address: 1 to 3 ASCII digits, no leading zero
\* on a longer octet, value at most 255
IsOctet(o) ==
    /\ Len(o) >= 1 /\ Len(o) <= 3
    /\ \A i \in 1..Len(o) : IsDigit(o[i])
    /\ (Len(o) > 1 => o[1] # 48)
    /\ DigitsValue(o) <= 255

\* ipaddress.IPv4Address(ip) does not raise
IsIPv4Address(ip) ==
    LET octets == SplitDots(ip, <<>>) IN
    Len(octets) = 4 /\ \A i \in 1..4 : IsOctet(octets[i])

\* DebIPChanger.validate_ip(ip_string) and ios_debrand_end_to_end.validate_ip(ip)
\* for a text without ":" (with no colon in it ipaddress.ip_address accepts
\* exactly the IPv4 addresses)
validate_ip(ip_string) == IsIPv4Address(ip_string) /\ Len(ip_string) = 12

\* number of ASCII digits of data from 0-based position i on
RECURSIVE DigitRun(_, _)
DigitRun(data, i) ==
    IF i < Len(data) /\ IsDigit(data[i + 1]) THEN 1 + DigitRun(data, i + 1) ELSE 0

\* rb'\d{1,3}\.\d{1,3}\.\d{1,3}\.\d{1,3}' matched at 0-based position i:
\* the end of the match, or -1.  Each of the first three groups must be a
\* whole digit run of 1 to 3 digits followed by a dot, the fourth group
\* takes up to 3 digits.
IpMatchEnd(data, i) ==
    LET r1 == DigitRun(data, i)
        p2 == i + r1 + 1
        r2 == DigitRun(data, p2)
        p3 == p2 + r2 + 1
        r3 == DigitRun(data, p3)
        p4 == p3 + r3 + 1
        r4 == DigitRun(data, p4)
        DotAt(q) == q < Len(data) /\ data[q + 1] = 46
    IN  IF /\ r1 \in 1..3 /\ DotAt(i + r1)
           /\ r2 \in 1..3 /\ DotAt(p2 + r2)
           /\ r3 \in 1..3 /\ DotAt(p3 + r3)
           /\ r4 >= 1
        THEN p4 + Min(r4, 3)
        ELSE 0 - 1

\* the first match of re.findall(ip_pattern, data) that does not start
\* with "127.", or <<>> for None
RECURSIVE FirstForeignIp(_, _)
FirstForeignIp(data, i) ==
    IF i >= Len(data) THEN <<>>
    ELSE LET e == IpMatchEnd(data, i) IN
         IF e < 0 THEN FirstForeignIp(data, i + 1)
         ELSE IF StartsWith(Slice(data, i, e), <<49, 50, 55, 46>>)
              THEN FirstForeignIp(data, e)
              ELSE Slice(data, i, e)

----------------------------------------------------------------------------
(* Variant generator (ios_deb_ip_changer_final.py).  Files are their       *)
(* bytes, a directory is the list of its files in the order they were      *)
(* extracted.                                                              *)

NoParsed ==
    [debian_binary |-> <<>>, control_tar_gz |-> <<>>, data_member_name |-> <<>>,
     data_payload_bytes |-> <<>>, data_tar_raw |-> <<>>]

\* the content / the name of member i of a list, <<>> for member 0 (None)
ContentAt(members, i) == IF i = 0 THEN <<>> ELSE members[i].content
NameAt(members, i) == IF i = 0 THEN <<>> ELSE members[i].name

\* b".lzma"
DOT_LZMA == <<46, 108, 122, 109, 97>>

\* the decompression step of _parse_deb: FORMAT_ALONE first and the default
\* format when that raises, for a member named *.lzma; the bytes as they are
\* for "data.tar"
ip_decompress(data_name, data_bytes) ==
    IF EndsWith(data_name, DOT_LZMA)
    THEN IF lzma_decompress_alone(data_bytes).err = "none"
         THEN lzma_decompress_alone(data_bytes)
         ELSE lzma_decompress_auto(data_bytes)
    ELSE [err |-> "none", raw |-> data_bytes]

\* DebIPChanger._parse_deb(deb_path)
ip_parse_deb(bytes) ==
    Bind(ip_read_ar_members(bytes), LAMBDA rd :
      IF rd.err # "none" THEN [err |-> rd.err, parsed |-> NoParsed]
      ELSE
        Bind([debbin     |-> ContentAt(rd.members, IndexOfName(rd.members, N_DEBIAN_BINARY)),
              control    |-> ContentAt(rd.members, IndexOfName(rd.members, N_CONTROL_TAR_GZ)),
              data_name  |-> NameAt(rd.members, IndexOfPrefix(rd.members, N_DATA_TAR)),
              data_bytes |-> ContentAt(rd.members, IndexOfPrefix(rd.members, N_DATA_TAR))],
             LAMBDA m :
          IF m.debbin = <<>> \/ m.control = <<>> \/ m.data_bytes = <<>> \/ m.data_name = <<>>
          THEN [err |-> "MissingMember", parsed |-> NoParsed]
          ELSE IF ~EndsWith(m.data_name, DOT_LZMA) /\ m.data_name # N_DATA_TAR
          THEN [err |-> "UnsupportedDataMember", parsed |-> NoParsed]
          ELSE
            Bind(ip_decompress(m.data_name, m.data_bytes), LAMBDA raw :
              IF raw.err # "none" THEN [err |-> raw.err, parsed |-> NoParsed]
              ELSE [err |-> "none",
                    parsed |-> [debian_binary |-> m.debbin, control_tar_gz |-> m.control,
                                data_member_name |-> m.data_name,
                                data_payload_bytes |-> m.data_bytes,
                                data_tar_raw |-> raw.raw]])))

NoWork ==
    [err |-> "none", parsed |-> NoParsed, control_files |-> <<>>, data_files |-> <<>>]

\* DebIPChanger.extract_deb(deb_file, extract_dir): the work directory and
\* self._parsed_base
ip_extract_deb(bytes) ==
    Bind(ip_parse_deb(bytes), LAMBDA pr :
      IF pr.err # "none" THEN [NoWork EXCEPT !.err = pr.err]
      ELSE
        Bind(GzipDecompress(pr.parsed.control_tar_gz), LAMBDA gz :
          IF gz.err # "none" THEN [NoWork EXCEPT !.err = gz.err]
          ELSE
            Bind(<<UnTar(gz.raw), UnTar(pr.parsed.data_tar_raw)>>, LAMBDA t :
              IF t[1].err # "none" THEN [NoWork EXCEPT !.err = t[1].err]
              ELSE IF t[2].err # "none" THEN [NoWork EXCEPT !.err = t[2].err]
              ELSE [err |-> "none", parsed |-> pr.parsed,
                    control_files |-> t[1].entries, data_files |-> t[2].entries])))

\* DebIPChanger.find_current_ip(extract_dir): <<>> for None
find_current_ip(data_files) ==
    IF ~TreeHas(data_files, BINARY_REL_PATH) THEN <<>>
    ELSE LET data == TreeGet(data_files, BINARY_REL_PATH) IN
         IF Contains(data, BASE_IP) THEN BASE_IP ELSE FirstForeignIp(data, 0)

\* DebIPChanger._assemble_deb(output_path, debbin, control_gz, data_tar_bytes,
\* lzma_alone): the bytes of the output file
assemble_deb(debbin, control_gz, data_tar_bytes, lzma_alone) ==
    LET compressed_data == IF lzma_alone THEN lzma_compress_alone(data_tar_bytes)
                           ELSE data_tar_bytes
        data_name == IF lzma_alone THEN N_DATA_TAR_LZMA ELSE N_DATA_TAR
    IN  WriteAr("ip_changer",
                << [name |-> N_DEBIAN_BINARY,
                    content |-> IF debbin # <<>> THEN debbin ELSE DEBIAN_BINARY_2_0],
                   [name |-> N_CONTROL_TAR_GZ, content |-> control_gz],
                   [name |-> data_name, content |-> compressed_data] >>).out

\* DebIPChanger.create_deb_package(extract_dir, output_file): both archives
\* are rebuilt from the work directory, the version stamp is the parsed one.
\* Extracting an archive without entries creates no control_files directory,
\* and the parsed control archive is then written as it is.
create_deb_package(work, parsed) ==
    assemble_deb(parsed.debian_binary,
                 IF work.control_files # <<>>
                 THEN GzipCompress(TarBytes(work.control_files))
                 ELSE parsed.control_tar_gz,
                 TarBytes(work.data_files),
                 TRUE)

NoResult ==
    [ip |-> <<>>, ok |-> FALSE, tweaked |-> FALSE, applied |-> 0,
     before |-> <<>>, after |-> <<>>, out |-> <<>>]

\* the work directory with the binary rewritten
WorkWithBinary(work, bytes) ==
    [work EXCEPT !.data_files = TreePut(work.data_files, BINARY_REL_PATH, bytes)]

\* DebIPChanger.process_single_ip(new_ip, base_ip) as batch_process_ips calls
\* it: the work directory was just re-extracted and base_ip is known.  The
\* result of apply_latency_patches is not looked at.
process_single_ip(work, new_ip, base_ip, apply_tweak) ==
    IF ~validate_ip(new_ip) THEN [NoResult EXCEPT !.ip = new_ip]
    ELSE
      Bind(replace_ip_in_binary(TreeGet(work.data_files, BINARY_REL_PATH), base_ip, new_ip),
           LAMBDA rep :
        IF ~rep.ret THEN [NoResult EXCEPT !.ip = new_ip]
        ELSE IF ~apply_tweak
        THEN [ip |-> new_ip, ok |-> TRUE, tweaked |-> FALSE, applied |-> 0,
              before |-> rep.data, after |-> rep.data,
              out |-> create_deb_package(WorkWithBinary(work, rep.data), work.parsed)]
        ELSE
          Bind(apply_latency_patches(rep.data), LAMBDA lat :
            [ip |-> new_ip, ok |-> TRUE, tweaked |-> TRUE, applied |-> lat.count,
             before |-> rep.data, after |-> lat.data,
             out |-> create_deb_package(WorkWithBinary(work, lat.data), work.parsed)]))

\* the name of a variant in the output directory:
\* f"iosvcam_base_{ip_safe}{tweak_suffix}.deb"
VariantName(ip, tweaked) == <<ip, tweaked>>

\* writing a file into a directory (a function from names to bytes)
DirPut(dir, name, bytes) ==
    [k \in DOMAIN dir \cup {name} |-> IF k = name THEN bytes ELSE dir[k]]

\* the loop of batch_process_ips over ip_list
RECURSIVE batch_loop(_, _, _, _, _, _)
batch_loop(work, ip_list, base_ip, apply_tweak, dir, results) ==
    IF ip_list = <<>> THEN [dir |-> dir, results |-> results]
    ELSE Bind(process_single_ip(work, Head(ip_list), base_ip, apply_tweak), LAMBDA r :
           batch_loop(work, Tail(ip_list), base_ip, apply_tweak,
                      IF r.ok THEN DirPut(dir, VariantName(r.ip, r.tweaked), r.out) ELSE dir,
                      Append(results, [r EXCEPT !.out = <<>>])))

\* batch_process_ips(ip_list) on the extracted base
batch_process_ips(work, ip_list, apply_tweak, dir) ==
    IF work.err # "none"
    THEN [rc |-> 1, err |-> work.err, dir |-> dir, results |-> <<>>]
    ELSE
      Bind(find_current_ip(work.data_files), LAMBDA base_ip :
        IF base_ip = <<>>
        THEN [rc |-> 0, err |-> "NoIpInBinary", dir |-> dir, results |-> <<>>]
        ELSE
          Bind(batch_loop(work, ip_list, base_ip, apply_tweak, dir, <<>>), LAMBDA loop :
            [rc |-> 0, err |-> "none", dir |-> loop.dir, results |-> loop.results]))

\* main() of ios_deb_ip_changer_final.py with a base package that exists:
\* validate the addresses, run_quick -> batch_process_ips -> cleanup.  An
\* exception of extract_deb ends the process with a traceback (rc 1).
ip_changer_main(base, ips, apply_tweak, dir) ==
    IF SelectSeq(ips, validate_ip) = <<>>
    THEN [rc |-> 1, err |-> "NoValidIps", dir |-> dir, results |-> <<>>]
    ELSE batch_process_ips(ip_extract_deb(base), SelectSeq(ips, validate_ip),
                           apply_tweak, dir)

----------------------------------------------------------------------------
(* Packer (deb_packer.py), validator (validate_deb.py) and the debranding  *)
(* tool (ios_debrand_end_to_end.py).                                       *)

\* deb_packer.build_deb(extracted_root, output_deb) on a root that holds the
\* "control" and "data" directories: the bytes of the output file
build_deb(control_dir, data_dir) ==
    WriteAr("deb_packer",
            << [name |-> N_DEBIAN_BINARY, content |-> DEBIAN_BINARY_2_0],
               [name |-> N_CONTROL_TAR_GZ, content |-> GzipCompress(TarBytes(control_dir))],
               [name |-> N_DATA_TAR_LZMA,
                content |-> lzma_compress_alone(TarBytes(data_dir))] >>).out

\* (the checks of the validator without the test of the version stamp)
validate_members_any_stamp(ms) ==
    IF ms = <<>> \/ ms[1].name # N_DEBIAN_BINARY
    THEN [rc |-> 1, fail |-> "debian-binary not first"]
    ELSE IF IndexOfName(ms, N_CONTROL_TAR_GZ) = 0
    THEN [rc |-> 1, fail |-> "missing control.tar.gz"]
    ELSE IF IndexOfPrefix(ms, N_DATA_TAR) = 0
    THEN [rc |-> 1, fail |-> "missing data.tar.*"]
    ELSE [rc |-> 0, fail |-> "none"]

\* the checks of validate_deb.main on the members read
validate_members(ms) ==
    IF ms = <<>> \/ ms[1].name # N_DEBIAN_BINARY
    THEN [rc |-> 1, fail |-> "debian-binary not first"]
    ELSE IF IndexOfName(ms, N_CONTROL_TAR_GZ) = 0
    THEN [rc |-> 1, fail |-> "missing control.tar.gz"]
    ELSE IF IndexOfPrefix(ms, N_DATA_TAR) = 0 \/ NameAt(ms, IndexOfPrefix(ms, N_DATA_TAR)) = <<>>
    THEN [rc |-> 1, fail |-> "missing data.tar.*"]
    ELSE IF ContentAt(ms, IndexOfName(ms, N_DEBIAN_BINARY)) # DEBIAN_BINARY_2_0
    THEN [rc |-> 1, fail |-> "wrong debian-binary contents"]
    ELSE
      Bind(Take(ContentAt(ms, IndexOfName(ms, NameAt(ms, IndexOfPrefix(ms, N_DATA_TAR)))), 6),
           LAMBDA sig :
        IF ~StartsWith(sig, <<93, 0, 0>>)
           /\ (StartsWith(sig, <<253, 55, 122, 88, 90>>) \/ Take(sig, 2) = <<253, 55>>)
        THEN [rc |-> 1, fail |-> "XZ container used"]
        ELSE
          Bind(GzipDecompress(ContentAt(ms, IndexOfName(ms, N_CONTROL_TAR_GZ))), LAMBDA gz :
            IF gz.err # "none" THEN [rc |-> 1, fail |-> "cannot read control.tar.gz"]
            ELSE
              Bind(UnTar(gz.raw), LAMBDA tar :
                IF tar.err # "none" THEN [rc |-> 1, fail |-> "cannot read control.tar.gz"]
                ELSE IF ~TreeHas(tar.entries, "control")
                THEN [rc |-> 1, fail |-> "control file missing inside control.tar.gz"]
                ELSE [rc |-> 0, fail |-> "none"])))

\* validate_deb.main(path): the exit status and the line it fails with.  An
\* exception of read_members ends the process with a traceback (rc 1).
validate_deb_main(bytes) ==
    Bind(read_members(bytes), LAMBDA rd :
      IF rd.err # "none" THEN [rc |-> 1, fail |-> rd.err] ELSE validate_members(rd.members))

\* index of the last member the loop of extract_deb assigns from, 0 if none
LastIndexOfName(members, name) ==
    LET hits == {i \in 1..Len(members) : RStripSlash(members[i].name) = name}
    IN  IF hits = {} THEN 0 ELSE CHOOSE i \in hits : \A j \in hits : i >= j

LastIndexOfPrefix(members, prefix) ==
    LET hits == {i \in 1..Len(members) :
                    /\ RStripSlash(members[i].name) # N_CONTROL_TAR_GZ
                    /\ StartsWith(RStripSlash(members[i].name), prefix)}
    IN  IF hits = {} THEN 0 ELSE CHOOSE i \in hits : \A j \in hits : i >= j

NoTrees == [err |-> "none", control |-> <<>>, data |-> <<>>]

\* the extraction steps of ios_debrand_end_to_end.extract_deb on the two
\* archives it found
debrand_extract_archives(control_bytes, data_bytes) ==
    IF control_bytes = <<>> \/ data_bytes = <<>>
    THEN [NoTrees EXCEPT !.err = "MissingMember"]
    ELSE
      Bind(GzipDecompress(control_bytes), LAMBDA gz :
        IF gz.err # "none" THEN [NoTrees EXCEPT !.err = gz.err]
        ELSE
          Bind(UnTar(gz.raw), LAMBDA ctl :
            IF ctl.err # "none" THEN [NoTrees EXCEPT !.err = ctl.err]
            ELSE
              Bind(IF lzma_decompress_alone(data_bytes).err = "none"
                   THEN lzma_decompress_alone(data_bytes)
                   ELSE lzma_decompress_auto(data_bytes), LAMBDA raw :
                IF raw.err # "none" THEN [NoTrees EXCEPT !.err = raw.err]
                ELSE
                  Bind(UnTar(raw.raw), LAMBDA dat :
                    IF dat.err # "none" THEN [NoTrees EXCEPT !.err = dat.err]
                    ELSE [err |-> "none", control |-> ctl.entries,
                          data |-> dat.entries]))))

\* ios_debrand_end_to_end.extract_deb(deb_path, work_dir): the "control" and
\* "data" directories
debrand_extract_deb(bytes) ==
    Bind(debrand_read_members(bytes), LAMBDA rd :
      IF rd.err # "none" THEN [NoTrees EXCEPT !.err = rd.err]
      ELSE debrand_extract_archives(
               ContentAt(rd.members, LastIndexOfName(rd.members, N_CONTROL_TAR_GZ)),
               ContentAt(rd.members, LastIndexOfPrefix(rd.members, N_DATA_TAR))))

\* bytes.lower()
Lower(data) ==
    [i \in 1..Len(data) |-> IF data[i] >= 65 /\ data[i] <= 90 THEN data[i] + 32 ELSE data[i]]

\* b"bkatm"
BKATM == <<98, 107, 97, 116, 109>>

\* ios_debrand_end_to_end.verify_no_branding(binary_path)
verify_no_branding(data) == ~Contains(Lower(data), BKATM)

\* the steps of build_debranded_base after the extraction: patch, verify,
\* rebuild, validate
debrand_rebuild(ex, base) ==
    IF ex.err # "none" THEN [err |-> ex.err, built |-> FALSE, base |-> base]
    ELSE IF ~TreeHas(ex.data, BINARY_REL_PATH)
    THEN [err |-> "BinaryNotFound", built |-> FALSE, base |-> base]
    ELSE
      Bind(patch_branding(TreeGet(ex.data, BINARY_REL_PATH)), LAMBDA pb :
        IF pb.err # "none" THEN [err |-> pb.err, built |-> FALSE, base |-> base]
        ELSE IF ~verify_no_branding(pb.data)
        THEN [err |-> "BrandingRemains", built |-> FALSE, base |-> base]
        ELSE
          Bind(build_deb(ex.control, TreePut(ex.data, BINARY_REL_PATH, pb.data)),
               LAMBDA built :
            IF validate_deb_main(built).rc # 0
            THEN [err |-> "ValidationFailed", built |-> TRUE, base |-> built]
            ELSE [err |-> "none", built |-> TRUE, base |-> built]))

\* build_debranded_base(branded_source, force) with the base file as it is on
\* disk (<<>> when absent): the base file afterwards.  The package is written
\* before it is validated, so a failed validation leaves it on disk.
build_debranded_base(branded_source, force, base) ==
    IF base # <<>> /\ ~force THEN [err |-> "none", built |-> FALSE, base |-> base]
    ELSE debrand_rebuild(debrand_extract_deb(branded_source), base)

----------------------------------------------------------------------------
(* Metadata tool (change_maintainer.py).                                   *)

\* the ASCII line boundaries of str.splitlines()
IsLineEnd(b) == b \in {10, 11, 12, 13, 28, 29, 30}

\* read_text().splitlines() on ASCII text: a "\r\n" pair is one boundary and
\* a final boundary does not open an empty last line
RECURSIVE SplitLines(_, _)
SplitLines(text, line) ==
    IF text = <<>> THEN IF line = <<>> THEN <<>> ELSE <<line>>
    ELSE IF Head(text) = 13 /\ Len(text) > 1 /\ text[2] = 10
         THEN <<line>> \o SplitLines(Tail(Tail(text)), <<>>)
    ELSE IF IsLineEnd(Head(text)) THEN <<line>> \o SplitLines(Tail(text), <<>>)
    ELSE SplitLines(Tail(text), Append(line, Head(text)))

\* '\n'.join(lines) + '\n'
RECURSIVE JoinLines(_)
JoinLines(lines) ==
    IF lines = <<>> THEN <<10>>
    ELSE IF Len(lines) = 1 THEN Head(lines) \o <<10>>
    ELSE Head(lines) \o <<10>> \o JoinLines(Tail(lines))

\* "kox", the default new maintainer
DEFAULT_MAINTAINER == <<107, 111, 120>>

\* "Maintainer:", "Author:", "Homepage:", "Depiction:"
K_MAINTAINER == <<77, 97, 105, 110, 116, 97, 105, 110, 101, 114, 58>>
K_AUTHOR == <<65, 117, 116, 104, 111, 114, 58>>
K_HOMEPAGE == <<72, 111, 109, 101, 112, 97, 103, 101, 58>>
K_DEPICTION == <<68, 101, 112, 105, 99, 116, 105, 111, 110, 58>>

\* list.insert(i, x)
ListInsert(list, i, x) ==
    SubSeq(list, 1, Min(i, Len(list))) \o <<x>> \o SubSeq(list, Min(i, Len(list)) + 1, Len(list))

\* (the loop with a case-sensitive keyword test)
RECURSIVE modify_loop_case_sensitive(_, _, _, _, _)
modify_loop_case_sensitive(lines, new_maintainer, new_author, remove_repo, acc) ==
    IF lines = <<>> THEN acc
    ELSE LET line == Head(lines)
             rest == Tail(lines)
         IN
         IF StartsWith(line, K_MAINTAINER)
         THEN modify_loop_case_sensitive(rest, new_maintainer, new_author, remove_repo,
                 [acc EXCEPT !.modified = Append(@, K_MAINTAINER \o <<32>> \o new_maintainer),
                             !.maintainer_found = TRUE])
         ELSE IF StartsWith(line, K_AUTHOR) /\ new_author # <<>>
         THEN modify_loop_case_sensitive(rest, new_maintainer, new_author, remove_repo,
                 [acc EXCEPT !.modified = Append(@, K_AUTHOR \o <<32>> \o new_author),
                             !.author_found = TRUE])
         ELSE IF remove_repo /\ (\/ StartsWith(line, K_HOMEPAGE)
                                 \/ StartsWith(line, K_DEPICTION)
                                 \/ Contains(line, BKATM))
         THEN modify_loop_case_sensitive(rest, new_maintainer, new_author, remove_repo, acc)
         ELSE modify_loop_case_sensitive(rest, new_maintainer, new_author, remove_repo,
                 [acc EXCEPT !.modified = Append(@, line)])

\* the loop of modify_maintainer over the lines; new_author = <<>> is None
RECURSIVE modify_loop(_, _, _, _, _)
modify_loop(lines, new_maintainer, new_author, remove_repo, acc) ==
    IF lines = <<>> THEN acc
    ELSE LET line == Head(lines)
             rest == Tail(lines)
         IN
         IF StartsWith(line, K_MAINTAINER)
         THEN modify_loop(rest, new_maintainer, new_author, remove_repo,
                 [acc EXCEPT !.modified = Append(@, K_MAINTAINER \o <<32>> \o new_maintainer),
                             !.maintainer_found = TRUE])
         ELSE IF StartsWith(line, K_AUTHOR) /\ new_author # <<>>
         THEN modify_loop(rest, new_maintainer, new_author, remove_repo,
                 [acc EXCEPT !.modified = Append(@, K_AUTHOR \o <<32>> \o new_author),
                             !.author_found = TRUE])
         ELSE IF remove_repo /\ (\/ StartsWith(line, K_HOMEPAGE)
                                 \/ StartsWith(line, K_DEPICTION)
                                 \/ Contains(Lower(line), BKATM))
         THEN modify_loop(rest, new_maintainer, new_author, remove_repo, acc)
         ELSE modify_loop(rest, new_maintainer, new_author, remove_repo,
                 [acc EXCEPT !.modified = Append(@, line)])

\* the two insertions that follow the loop of modify_maintainer
modify_insert(r, new_maintainer, new_author) ==
    Bind(IF r.maintainer_found THEN r.modified
         ELSE ListInsert(r.modified, 0, K_MAINTAINER \o <<32>> \o new_maintainer),
         LAMBDA m1 :
      IF new_author # <<>> /\ ~r.author_found
      THEN ListInsert(m1, IF r.maintainer_found THEN 1 ELSE 0,
                      K_AUTHOR \o <<32>> \o new_author)
      ELSE m1)

\* the warnings modify_maintainer prints after the loop
modify_warnings(r, new_author) ==
    (IF r.maintainer_found THEN <<>> ELSE <<"MaintainerMissing">>)
    \o (IF new_author # <<>> /\ ~r.author_found THEN <<"AuthorMissing">> ELSE <<>>)

\* the flags of the loop of modify_maintainer before the first line
NoneFound == [modified |-> <<>>, maintainer_found |-> FALSE, author_found |-> FALSE]

\* change_maintainer.modify_maintainer(control_file, new_maintainer,
\* new_author, remove_repo): the text of the control file afterwards
modify_maintainer(text, new_maintainer, new_author, remove_repo) ==
    JoinLines(
        modify_insert(
            modify_loop(SplitLines(text, <<>>), new_maintainer, new_author, remove_repo,
                        NoneFound),
            new_maintainer, new_author))

\* the payload half of change_maintainer.extract_deb
cm_extract_data(bytes, control) ==
    Bind(extract_ar_member(bytes, N_DATA_TAR_LZMA), LAMBDA d :
      IF d.err # "none" THEN [NoTrees EXCEPT !.err = d.err]
      ELSE
        Bind(lzma_decompress_alone(d.content), LAMBDA raw :
          IF raw.err # "none" THEN [NoTrees EXCEPT !.err = raw.err]
          ELSE
            Bind(UnTar(raw.raw), LAMBDA dat :
              IF dat.err # "none" THEN [NoTrees EXCEPT !.err = dat.err]
              ELSE [err |-> "none", control |-> control, data |-> dat.entries])))

\* change_maintainer.extract_deb(deb_path, extract_dir)
cm_extract_deb(bytes) ==
    Bind(extract_ar_member(bytes, N_CONTROL_TAR_GZ), LAMBDA c :
      IF c.err # "none" THEN [NoTrees EXCEPT !.err = c.err]
      ELSE
        Bind(GzipDecompress(c.content), LAMBDA gz :
          IF gz.err # "none" THEN [NoTrees EXCEPT !.err = gz.err]
          ELSE
            Bind(UnTar(gz.raw), LAMBDA ctl :
              IF ctl.err # "none" THEN [NoTrees EXCEPT !.err = ctl.err]
              ELSE cm_extract_data(bytes, ctl.entries))))

\* change_maintainer.repack_deb(extracted_root, output_deb)
repack_deb(control_dir, data_dir) ==
    WriteAr("change_maintainer",
            << [name |-> N_DEBIAN_BINARY, content |-> DEBIAN_BINARY_2_0],
               [name |-> N_CONTROL_TAR_GZ, content |-> GzipCompress(TarBytes(control_dir))],
               [name |-> N_DATA_TAR_LZMA,
                content |-> lzma_compress_alone(TarBytes(data_dir))] >>).out

\* main() of change_maintainer.py on an input that exists: the exit status
\* and the bytes written to <input>.modified.deb (<<>> when none is written)
change_maintainer_main(input_deb, new_maintainer, new_author, remove_repo) ==
    Bind(cm_extract_deb(input_deb), LAMBDA ex :
      IF ex.err # "none" THEN [rc |-> 1, err |-> ex.err, out |-> <<>>]
      ELSE IF ~TreeHas(ex.control, "control")
      THEN [rc |-> 1, err |-> "NoControlFile", out |-> <<>>]
      ELSE [rc |-> 0, err |-> "none",
            out |-> repack_deb(
                       TreePut(ex.control, "control",
                               modify_maintainer(TreeGet(ex.control, "control"),
                                                 new_maintainer, new_author, remove_repo)),
                       ex.data)])

----------------------------------------------------------------------------
(* Metadata patcher: the state machine.  A control file is given and       *)
(* modify_maintainer is called on it once.                                 *)

MaxLines == 3

\* the lines control files are made of: "Maintainer: M", "Author: BkAtm",
\* "Homepage: h", "Depiction: d", "Package: x" and the blank line
ControlLines ==
    { K_MAINTAINER \o <<32, 77>>,
      K_AUTHOR \o <<32, 66, 107, 65, 116, 109>>,
      K_HOMEPAGE \o <<32, 104>>,
      K_DEPICTION \o <<32, 100>>,
      <<80, 97, 99, 107, 97, 103, 101, 58, 32, 120>>,
      <<>> }

\* control files of at most n lines, each line closed by "\n"
RECURSIVE ControlTextsOf(_)
ControlTextsOf(n) ==
    IF n = 0 THEN { <<>> }
    ELSE LET shorter == ControlTextsOf(n - 1) IN
         shorter \cup { t \o l \o <<10>> : t \in shorter, l \in ControlLines }

ControlTexts == ControlTextsOf(MaxLines)

NoCall ==
    [done |-> FALSE, before |-> <<>>, new_maintainer |-> <<>>, new_author |-> <<>>,
     remove_repo |-> FALSE, warnings |-> <<>>]

CtlInit ==
    /\ ctlFile \in ControlTexts
    /\ ctlCall = NoCall

CtlIdle ==
    /\ ctlFile = <<>>
    /\ ctlCall = NoCall

\* modify_maintainer(control_file, "kox", None | "kox", remove_repo)
CtlModify ==
    /\ ~ctlCall.done
    /\ \E new_author \in { <<>>, DEFAULT_MAINTAINER }, remove_repo \in BOOLEAN :
         /\ ctlFile' = modify_maintainer(ctlFile, DEFAULT_MAINTAINER, new_author, remove_repo)
         /\ ctlCall' =
               [done |-> TRUE, before |-> ctlFile,
                new_maintainer |-> DEFAULT_MAINTAINER, new_author |-> new_author,
                remove_repo |-> remove_repo,
                warnings |-> modify_warnings(
                    modify_loop(SplitLines(ctlFile, <<>>), DEFAULT_MAINTAINER,
                                new_author, remove_repo, NoneFound),
                    new_author)]
    /\ UNCHANGED <<arVars, binVars, pkgVars, conVars, stepVars, tarVars, monVars>>

----------------------------------------------------------------------------
(* Metadata patcher: properties.                                           *)

\* the lines of the control file before and after the call
LinesBefore == SplitLines(ctlCall.before, <<>>)
LinesAfter == SplitLines(ctlFile, <<>>)

MaintainerLine == K_MAINTAINER \o <<32>> \o ctlCall.new_maintainer
AuthorLine == K_AUTHOR \o <<32>> \o ctlCall.new_author

\* the positions of the lines starting with "Maintainer:" before the call
MaintainerAt == { i \in 1..Len(LinesBefore) : StartsWith(LinesBefore[i], K_MAINTAINER) }

\* C12: when only the Maintainer is set and the file has lines starting with
\* "Maintainer:", the first of them becomes "Maintainer: <value>" and every
\* other line, later Maintainer lines included, is as it was, in its place;
\* with one Maintainer line before there is one after.
C12_FirstMaintainerOnly ==
    ( /\ ctlCall.done
      /\ ctlCall.new_author = <<>> /\ ~ctlCall.remove_repo
      /\ MaintainerAt # {} )
    => LET first == CHOOSE i \in MaintainerAt : \A j \in MaintainerAt : i <= j IN
       /\ LinesAfter = [LinesBefore EXCEPT ![first] = MaintainerLine]
       /\ Cardinality(MaintainerAt) = 1
             => Cardinality({ i \in 1..Len(LinesAfter) :
                                StartsWith(LinesAfter[i], K_MAINTAINER) }) = 1

\* C13: when the file has no line starting with "Maintainer:", the first
\* line afterwards is "Maintainer: <value>" and the missing-field warning is
\* reported, whatever the other edits; when no other edit is requested the
\* original lines follow in their order.
C13_MissingMaintainerFirst ==
    (ctlCall.done /\ MaintainerAt = {})
    => /\ LinesAfter # <<>>
       /\ Head(LinesAfter) = MaintainerLine
       /\ \E k \in 1..Len(ctlCall.warnings) : ctlCall.warnings[k] = "MaintainerMissing"
       /\ (ctlCall.new_author = <<>> /\ ~ctlCall.remove_repo)
             => Tail(LinesAfter) = LinesBefore

\* C14: the text written ends with exactly one newline.
C14_OneTrailingNewline ==
    ctlCall.done
    => /\ Len(ctlFile) >= 1
       /\ ctlFile[Len(ctlFile)] = 10
       /\ Len(ctlFile) >= 2 => ctlFile[Len(ctlFile) - 1] # 10

\* a line the call rewrites: a Maintainer line, or an Author line when an
\* Author value is supplied
IsTarget(line) ==
    \/ StartsWith(line, K_MAINTAINER)
    \/ StartsWith(line, K_AUTHOR) /\ ctlCall.new_author # <<>>

\* a line the debrand edit is about
IsRepoLine(line) ==
    \/ StartsWith(line, K_HOMEPAGE)
    \/ StartsWith(line, K_DEPICTION)
    \/ Contains(Lower(line), BKATM)

Rewritten(line) ==
    IF StartsWith(line, K_MAINTAINER) THEN MaintainerLine
    ELSE IF StartsWith(line, K_AUTHOR) /\ ctlCall.new_author # <<>> THEN AuthorLine
    ELSE line

\* seq without the positions in S, from position i on
RECURSIVE WithoutFrom(_, _, _)
WithoutFrom(seq, S, i) ==
    IF i > Len(seq) THEN <<>>
    ELSE (IF i \in S THEN <<>> ELSE <<seq[i]>>) \o WithoutFrom(seq, S, i + 1)

\* the lines after the call are the lines of `kept`, rewritten where they
\* are targets, in their order, and at most two inserted field lines
FollowsScan(kept) ==
    \E S \in SUBSET (1..Len(LinesAfter)) :
        /\ Cardinality(S) <= 2
        /\ \A i \in S : LinesAfter[i] \in { MaintainerLine, AuthorLine }
        /\ WithoutFrom(LinesAfter, S, 1) = [i \in 1..Len(kept) |-> Rewritten(kept[i])]

----------------------------------------------------------------------------
(* The tools as a state machine.  A source package lies on disk; each      *)
(* action is one run of one tool's main() and leaves its output files.     *)

MaxRuns == 1

\* version stamps of source packages: b"2.0\n" and b"3.0\n"
SrcVersionStamps == { DEBIAN_BINARY_2_0, <<51, 46, 48, 10>> }

\* payload members of source packages: data.tar.lzma in legacy framing,
\* data.tar.lzma in xz framing, an uncompressed data.tar, and data.tar.xz
SrcPayloadKinds ==
    { [name |-> N_DATA_TAR_LZMA, framing |-> "alone"],
      [name |-> N_DATA_TAR_LZMA, framing |-> "xz"],
      [name |-> N_DATA_TAR, framing |-> "raw"],
      [name |-> <<100, 97, 116, 97, 46, 116, 97, 114, 46, 120, 122>>, framing |-> "xz"] }

\* binaries of source packages.  The first 16 bytes are where the kept patch
\* rows point (row 13 at 0, row 14 at 4, row 11 at 8, row 12 at 12).
SrcBinaries ==
    { \* the base address alone: rows 13, 14, 11 mismatch, row 12 is out of range
      BASE_IP,
      \* row 11's word where row 13 points, row 14's word, zeros where row 11
      \* points, row 12's word, then the address as a C string
      LATENCY_PATCHES[11].old \o LATENCY_PATCHES[14].old \o <<0, 0, 0, 0>>
          \o LATENCY_PATCHES[12].old \o BASE_IP \o <<0>>,
      \* a branded binary
      BRAND_PATTERNS[1].old \o <<0>> \o BASE_IP,
      \* "127.0.0.1", then "172.16.10.50"
      <<49, 50, 55, 46, 48, 46, 48, 46, 49, 0>>
          \o <<49, 55, 50, 46, 49, 54, 46, 49, 48, 46, 53, 48>>,
      \* no address at all
      <<0>> }

\* the control file of the source packages:
\* "Package: v\nMaintainer: bkatm\nHomepage: x\n"
SrcControlText ==
    <<80, 97, 99, 107, 97, 103, 101, 58, 32, 118, 10>>
        \o <<77, 97, 105, 110, 116, 97, 105, 110, 101, 114, 58, 32, 98, 107, 97, 116, 109, 10>>
        \o <<72, 111, 109, 101, 112, 97, 103, 101, 58, 32, 120, 10>>

\* "#!\n"
SrcPostinst == <<35, 33, 10>>

SrcDataTrees ==
    { <<[path |-> BINARY_REL_PATH, content |-> b]>> : b \in SrcBinaries }
        \cup { <<[path |-> "postinst", content |-> SrcPostinst]>> }

\* an ar member as a packaging tool outside this repository writes it
SrcMember(name, content) ==
    ArHeaderText(Ljust(name, 16), Len(content)) \o content \o ArPad(content)

RECURSIVE SrcBytes(_)
SrcBytes(members) ==
    IF members = <<>> THEN <<>>
    ELSE SrcMember(Head(members).name, Head(members).content) \o SrcBytes(Tail(members))

SourcePackage(stamp, kind, data_tree) ==
    LET tar == TarBytes(data_tree)
        payload == CASE kind.framing = "alone" -> lzma_compress_alone(tar)
                     [] kind.framing = "xz"    -> lzma_compress_xz(tar)
                     [] kind.framing = "raw"   -> tar
        control == GzipCompress(TarBytes(<<[path |-> "control", content |-> SrcControlText],
                                           [path |-> "postinst", content |-> SrcPostinst]>>))
    IN  AR_MAGIC \o SrcMember(N_DEBIAN_BINARY, stamp)
                 \o SrcMember(N_CONTROL_TAR_GZ, control)
                 \o SrcMember(kind.name, payload)

SourcePackages ==
    { SourcePackage(stamp, kind, tree) :
        stamp \in SrcVersionStamps, kind \in SrcPayloadKinds, tree \in SrcDataTrees }

\* partially stripped source packages: one without a control.tar.gz member,
\* one whose control.tar.gz holds an archive without entries; both hold the
\* binary with the base address in a legacy payload
StrippedSources ==
    { AR_MAGIC \o SrcMember(N_DEBIAN_BINARY, DEBIAN_BINARY_2_0)
               \o control
               \o SrcMember(N_DATA_TAR_LZMA,
                     lzma_compress_alone(TarBytes(<<[path |-> BINARY_REL_PATH,
                                                     content |-> BASE_IP]>>))) :
        control \in { <<>>, SrcMember(N_CONTROL_TAR_GZ, GzipCompress(TarBytes(<<>>))) } }

\* address lists given on the command line: the valid "10.10.10.100", the
\* 11-character "192.168.1.9" (rejected), and the rejected one followed by
\* the valid one
IpLists ==
    LET ok  == <<49, 48, 46, 49, 48, 46, 49, 48, 46, 49, 48, 48>>
        bad == <<49, 57, 50, 46, 49, 54, 56, 46, 49, 46, 57>>
    IN  { <<ok>>, <<bad>>, <<bad, ok>> }


NoRun ==
    [tool |-> "none", input |-> <<>>, tweak |-> FALSE, rc |-> 0, err |-> "none",
     results |-> <<>>, out |-> <<>>]

\* every package a tool has written and that is on disk
Outputs ==
    { outDir[k] : k \in DOMAIN outDir } \cup ({ baseDeb, modDeb } \ { <<>> })

\* packages handed to the validator that no tool of the repository wrote:
\* the source packages, and packages whose payload member is named
\* data.tar.foo or data.tar.xz but holds a legacy stream, or that hold two
\* payload members
ValidatorPayloads ==
    { << [name |-> N_DATA_TAR \o <<46, 102, 111, 111>>, framing |-> "alone"] >>,
      << [name |-> N_DATA_TAR \o <<46, 120, 122>>, framing |-> "alone"] >>,
      << [name |-> N_DATA_TAR_LZMA, framing |-> "alone"],
         [name |-> N_DATA_TAR_LZMA, framing |-> "alone"] >>,
      << [name |-> N_DATA_TAR_LZMA, framing |-> "alone"],
         [name |-> N_DATA_TAR \o <<46, 120, 122>>, framing |-> "xz"] >> }

RECURSIVE PayloadMembers(_, _)
PayloadMembers(kinds, tar) ==
    IF kinds = <<>> THEN <<>>
    ELSE SrcMember(Head(kinds).name,
                   IF Head(kinds).framing = "alone" THEN lzma_compress_alone(tar)
                   ELSE lzma_compress_xz(tar))
         \o PayloadMembers(Tail(kinds), tar)

ValidatorInputs ==
    SourcePackages \cup
    { AR_MAGIC \o SrcMember(N_DEBIAN_BINARY, DEBIAN_BINARY_2_0)
               \o SrcMember(N_CONTROL_TAR_GZ,
                     GzipCompress(TarBytes(<<[path |-> "control",
                                              content |-> SrcControlText]>>)))
               \o PayloadMembers(kinds, TarBytes(<<[path |-> "postinst",
                                                    content |-> SrcPostinst]>>)) :
        kinds \in ValidatorPayloads }

\* what the version stamp of a package is changed to before it is validated:
\* b"3.0\n", b"2.0" and nothing
StampEdits == { "3.0\n", "2.0", "empty" }

StampBytes(edit) ==
    CASE edit = "3.0\n" -> <<51, 46, 48, 10>>
      [] edit = "2.0"   -> <<50, 46, 48>>
      [] edit = "empty" -> <<>>

\* the package with the content of its first member replaced
WithStamp(pkg, stamp) ==
    Bind(read_members(pkg).members, LAMBDA ms :
        IF ms = <<>> THEN pkg
        ELSE AR_MAGIC \o SrcMember(ms[1].name, stamp)
                      \o SrcBytes(Tail(ms)))

\* validate_deb.py not run yet
NoValidation ==
    [done |-> FALSE, pkg |-> <<>>, stamp |-> "keep", given |-> <<>>, rc |-> 0,
     fail |-> "none"]

PkgInit ==
    /\ srcDeb \in SourcePackages \cup StrippedSources
    /\ baseDeb = <<>>
    /\ outDir = <<>>
    /\ modDeb = <<>>
    /\ lastRun = NoRun
    /\ runCount = 0
    /\ valRun = NoValidation

\* a package from anywhere lies on disk for the validator
ValInit ==
    /\ srcDeb \in ValidatorInputs
    /\ baseDeb = <<>>
    /\ outDir = <<>>
    /\ modDeb = <<>>
    /\ lastRun = NoRun
    /\ runCount = 0
    /\ valRun = NoValidation

PkgIdle ==
    /\ srcDeb = <<>>
    /\ baseDeb = <<>>
    /\ outDir = <<>>
    /\ modDeb = <<>>
    /\ lastRun = NoRun
    /\ runCount = 0
    /\ valRun = NoValidation

\* the state a run leaves: its record, and the files it wrote
RunDone(run, dir, base, mod) ==
    /\ runCount' = runCount + 1
    /\ lastRun' = run
    /\ outDir' = dir
    /\ baseDeb' = base
    /\ modDeb' = mod
    /\ UNCHANGED <<srcDeb, valRun, arVars, binVars, ctlVars, conVars, stepVars, tarVars, monVars>>

\* python ios_deb_ip_changer_final.py [--base <source>] [--tweak] ips...
\* (without --base the package read is iosvcam_base.deb, which must exist)
IpChangerRun ==
    /\ runCount < MaxRuns
    /\ \E ips \in IpLists, apply_tweak \in BOOLEAN, with_base \in BOOLEAN :
      \E base \in { IF with_base THEN srcDeb ELSE baseDeb } :
        IF base = <<>>
        THEN RunDone([NoRun EXCEPT !.tool = "ip_changer", !.tweak = apply_tweak,
                                   !.rc = 1, !.err = "BaseNotFound"],
                     outDir, baseDeb, modDeb)
        ELSE \E r \in { ip_changer_main(base, ips, apply_tweak, outDir) } :
               RunDone([tool |-> "ip_changer", input |-> base, tweak |-> apply_tweak,
                        rc |-> r.rc, err |-> r.err, results |-> r.results, out |-> <<>>],
                       r.dir, baseDeb, modDeb)

\* the loop of ios_debrand_end_to_end.main over valid_ips: generate_ip_variant
\* runs the variant generator once per address and raises when it fails
RECURSIVE variants_loop(_, _, _, _)
variants_loop(base, valid_ips, dir, results) ==
    IF valid_ips = <<>> THEN [rc |-> 0, err |-> "none", dir |-> dir, results |-> results]
    ELSE Bind(ip_changer_main(base, <<Head(valid_ips)>>, FALSE, dir), LAMBDA r :
           IF r.rc # 0
           THEN [rc |-> 1, err |-> "IpChangerFailed", dir |-> r.dir,
                 results |-> results \o r.results]
           ELSE variants_loop(base, Tail(valid_ips), r.dir, results \o r.results))

\* python ios_debrand_end_to_end.py --base-branded <source> [--force-rebrand]
\* [--ip ips...]; an uncaught exception ends the process with rc 1
DebrandRun ==
    /\ runCount < MaxRuns
    /\ \E force \in BOOLEAN, ips \in IpLists \cup { <<>> } :
      \E b \in { build_debranded_base(srcDeb, force, baseDeb) } :
        IF b.err # "none"
        THEN RunDone([tool |-> "debrand", input |-> srcDeb, tweak |-> FALSE,
                      rc |-> 1, err |-> b.err, results |-> <<>>,
                      out |-> IF b.built THEN b.base ELSE <<>>],
                     outDir, b.base, modDeb)
        ELSE \E v \in { variants_loop(b.base, SelectSeq(ips, validate_ip), outDir, <<>>) } :
               RunDone([tool |-> "debrand", input |-> srcDeb, tweak |-> FALSE,
                        rc |-> v.rc, err |-> v.err, results |-> v.results,
                        out |-> IF b.built THEN b.base ELSE <<>>],
                       v.dir, b.base, modDeb)

\* python change_maintainer.py <source> kox [author] [--remove-repo]
ChangeMaintainerRun ==
    /\ runCount < MaxRuns
    /\ \E opts \in { [new_author |-> <<>>, remove_repo |-> FALSE],
                   [new_author |-> DEFAULT_MAINTAINER, remove_repo |-> TRUE] } :
      \E r \in { change_maintainer_main(srcDeb, DEFAULT_MAINTAINER,
                                        opts.new_author, opts.remove_repo) } :
        RunDone([tool |-> "change_maintainer", input |-> srcDeb, tweak |-> FALSE,
                 rc |-> r.rc, err |-> r.err, results |-> <<>>, out |-> r.out],
                outDir, baseDeb, IF r.rc = 0 THEN r.out ELSE modDeb)

\* python validate_deb.py <package>, on a package on disk, as it is or with
\* its version stamp changed
ValidateRun ==
    /\ ~valRun.done
    /\ \E pkg \in (Outputs \cup { srcDeb }) \ { <<>> }, stamp \in StampEdits \cup { "keep" } :
         \E given \in { IF stamp = "keep" THEN pkg ELSE WithStamp(pkg, StampBytes(stamp)) } :
           \E r \in { validate_deb_main(given) } :
             valRun' = [done |-> TRUE, pkg |-> pkg, stamp |-> stamp, given |-> given,
                        rc |-> r.rc, fail |-> r.fail]
    /\ UNCHANGED <<srcDeb, baseDeb, outDir, modDeb, lastRun, runCount>>
    /\ UNCHANGED <<arVars, binVars, ctlVars, conVars, stepVars, tarVars, monVars>>

Next == IpChangerRun \/ DebrandRun \/ ChangeMaintainerRun \/ ValidateRun

----------------------------------------------------------------------------
(* Two variant generator processes.  Each is one run of                    *)
(* ios_deb_ip_changer_final.py --base <source> <ip>, started in the same   *)
(* directory as the other, for a different address.  A step is one call of *)
(* extract_deb, of replace_ip_in_binary, of create_deb_package or of       *)
(* cleanup; the work directory self.work_dir = "deb_work_temp" and the      *)
(* output directory are on disk, everything else is the process's own.     *)

ConProcs == { 1, 2 }

\* the addresses of the two runs: "10.10.10.100" and "10.10.10.200"
ConIp(p) == IF p = 1 THEN NEW_IP ELSE <<49, 48, 46, 49, 48, 46, 49, 48, 46, 50, 48, 48>>

NoWorkDir == [exists |-> FALSE, control_files |-> <<>>, data_files |-> <<>>]

NoProc ==
    [pc |-> "idle", ip |-> <<>>, base_ip |-> <<>>, parsed |-> NoParsed, ok |-> FALSE,
     err |-> "none"]

ConInit ==
    /\ conWork = NoWorkDir
    /\ conOut = <<>>
    /\ conProc = [p \in ConProcs |-> [NoProc EXCEPT !.pc = "extract", !.ip = ConIp(p)]]

ConIdle ==
    /\ conWork = NoWorkDir
    /\ conOut = <<>>
    /\ conProc = [p \in ConProcs |-> NoProc]

ConOthersUnchanged == UNCHANGED <<arVars, binVars, pkgVars, ctlVars, stepVars, tarVars, monVars>>

\* the process ends on an uncaught exception, or goes on to `pc`
ConGoes(p, pc, err) ==
    conProc' = [conProc EXCEPT ![p].pc = pc, ![p].err = err]

\* what extract_deb leaves in the work directory
Extracted(ex) ==
    [exists |-> TRUE, control_files |-> ex.control_files, data_files |-> ex.data_files]

\* batch_process_ips up to its loop: extract_deb, then find_current_ip on the
\* work directory
ConExtract(p) ==
    /\ conProc[p].pc = "extract"
    /\ \E ex \in { ip_extract_deb(srcDeb) } :
         IF ex.err # "none"
         THEN ConGoes(p, "done", ex.err) /\ UNCHANGED conWork
         ELSE /\ conWork' = Extracted(ex)
              /\ \E base_ip \in { find_current_ip(ex.data_files) } :
                   conProc' = [conProc EXCEPT
                                  ![p].pc = IF base_ip = <<>> THEN "cleanup" ELSE "reextract",
                                  ![p].base_ip = base_ip,
                                  ![p].parsed = ex.parsed]
    /\ UNCHANGED conOut
    /\ ConOthersUnchanged

\* the loop body of batch_process_ips: "Re-extract for clean state"
ConReextract(p) ==
    /\ conProc[p].pc = "reextract"
    /\ \E ex \in { ip_extract_deb(srcDeb) } :
         /\ conWork' = Extracted(ex)
         /\ conProc' = [conProc EXCEPT ![p].pc = "patch", ![p].parsed = ex.parsed]
    /\ UNCHANGED conOut
    /\ ConOthersUnchanged

\* process_single_ip up to replace_ip_in_binary: the work directory is
\* extracted again when it does not exist, and the binary in it is patched
ConPatch(p) ==
    /\ conProc[p].pc = "patch"
    /\ \E work \in { IF conWork.exists THEN conWork ELSE Extracted(ip_extract_deb(srcDeb)) } :
         \E r \in { replace_ip_in_binary(TreeGet(work.data_files, BINARY_REL_PATH),
                                         conProc[p].base_ip, conProc[p].ip) } :
           IF ~r.ret
           THEN conWork' = work /\ ConGoes(p, "cleanup", "ReplaceFailed")
           ELSE /\ conWork' = [work EXCEPT
                                 !.data_files = TreePut(@, BINARY_REL_PATH, r.data)]
                /\ ConGoes(p, "rebuild", "none")
    /\ UNCHANGED conOut
    /\ ConOthersUnchanged

\* create_deb_package on the work directory, with the process's _parsed_base
ConRebuild(p) ==
    /\ conProc[p].pc = "rebuild"
    /\ IF ~conWork.exists
       THEN ConGoes(p, "done", "DataFilesMissing") /\ UNCHANGED conOut
       ELSE /\ conOut' = DirPut(conOut, VariantName(conProc[p].ip, FALSE),
                                create_deb_package(conWork, conProc[p].parsed))
            /\ conProc' = [conProc EXCEPT ![p].pc = "cleanup", ![p].ok = TRUE]
    /\ UNCHANGED conWork
    /\ ConOthersUnchanged

\* cleanup(): shutil.rmtree(self.work_dir)
ConCleanup(p) ==
    /\ conProc[p].pc = "cleanup"
    /\ conWork' = NoWorkDir
    /\ ConGoes(p, "done", conProc[p].err)
    /\ UNCHANGED conOut
    /\ ConOthersUnchanged

ConNext ==
    \E p \in ConProcs :
        \/ ConExtract(p)
        \/ ConReextract(p)
        \/ ConPatch(p)
        \/ ConRebuild(p)
        \/ ConCleanup(p)

\* the output directory of the run for address ip made alone
Alone(ip) == ip_changer_main(srcDeb, <<ip>>, FALSE, <<>>).dir

\* C20: whatever the interleaving of the two runs, a run that has ended has
\* written the variant it writes when run alone, with the same bytes.
C20_InterleavedSameAsAlone ==
    \A p \in ConProcs :
        conProc[p].pc = "done"
        => \A name \in DOMAIN Alone(conProc[p].ip) :
              /\ name \in DOMAIN conOut
              /\ conOut[name] = Alone(conProc[p].ip)[name]

----------------------------------------------------------------------------
(* The runs, step by step.  Files lie on disk under their paths, the work  *)
(* directories are relative to the directory the tools are started in.  A  *)
(* run of one tool goes through its extraction, its patches and its        *)
(* rebuild; the next run starts when it has ended.                          *)

MaxToolRuns == 2

\* "iosvcam_base.deb": DEBRANDED_BASE, and the default of self.original_deb
DEBRANDED_BASE ==
    <<105, 111, 115, 118, 99, 97, 109, 95, 98, 97, 115, 101, 46, 100, 101, 98>>

\* "tools/iosvcam_supp.deb"
BRANDED_DEFAULT ==
    <<116, 111, 111, 108, 115, 47, 105, 111, 115, 118, 99, 97, 109, 95, 115, 117,
      112, 112, 46, 100, 101, 98>>

\* "modified_debs": MODIFIED_DIR, and self.output_dir
MODIFIED_DIR == <<109, 111, 100, 105, 102, 105, 101, 100, 95, 100, 101, 98, 115>>

\* new_ip.replace('.', '_')
IpSafe(ip) == [i \in 1..Len(ip) |-> IF ip[i] = 46 THEN 95 ELSE ip[i]]

\* os.path.join(self.output_dir, f"iosvcam_base_{ip_safe}{tweak_suffix}.deb")
output_file(new_ip, apply_tweak) ==
    MODIFIED_DIR \o <<47>>
        \o <<105, 111, 115, 118, 99, 97, 109, 95, 98, 97, 115, 101, 95>>
        \o IpSafe(new_ip)
        \o (IF apply_tweak THEN <<95, 116, 119, 101, 97, 107, 101, 100>> ELSE <<>>)
        \o <<46, 100, 101, 98>>

\* index of the dot that starts PurePath.suffix, 0 when the name has none:
\* the last dot of the final component, neither its first nor its last
\* character
SuffixDot(path) ==
    LET slashes == {i \in 1..Len(path) : path[i] = 47}
        start == IF slashes = {} THEN 1
                 ELSE 1 + CHOOSE i \in slashes : \A j \in slashes : i >= j
        dots == {i \in start..Len(path) : path[i] = 46}
        last == IF dots = {} THEN 0 ELSE CHOOSE i \in dots : \A j \in dots : i >= j
    IN  IF last > start /\ last < Len(path) THEN last ELSE 0

\* Path.with_suffix(suffix)
with_suffix(path, suffix) ==
    IF SuffixDot(path) = 0 THEN path \o suffix
    ELSE SubSeq(path, 1, SuffixDot(path) - 1) \o suffix

\* ".deb.backup" and ".modified.deb"
DOT_DEB_BACKUP == <<46, 100, 101, 98, 46, 98, 97, 99, 107, 117, 112>>
DOT_MODIFIED_DEB == <<46, 109, 111, 100, 105, 102, 105, 101, 100, 46, 100, 101, 98>>

\* the work directories: self.work_dir, `work` of build_debranded_base and
\* extract_dir of change_maintainer.main
StepDirs == { "deb_work_temp", "_debrand_work", "temp_maintainer_change" }

NoTree == [exists |-> FALSE, control |-> <<>>, data |-> <<>>]

StepTree(control, data) == [exists |-> TRUE, control |-> control, data |-> data]

\* "10.10.10.200"
IP_200 == <<49, 48, 46, 49, 48, 46, 49, 48, 46, 50, 48, 48>>

\* command lines of the variant generator: one address with and without
\* --tweak, two addresses, and the 11-character "192.168.1.9" (rejected)
StepIpArgs ==
    { [ips |-> <<NEW_IP>>, tweak |-> FALSE],
      [ips |-> <<NEW_IP>>, tweak |-> TRUE],
      [ips |-> <<NEW_IP, IP_200>>, tweak |-> FALSE],
      [ips |-> << <<49, 57, 50, 46, 49, 54, 56, 46, 49, 46, 57>> >>, tweak |-> FALSE] }

\* the source packages of the runs: a branded one, one whose control archive
\* has no entries, and one whose binary holds the address "10.0.0.1"
StepSources ==
    { SourcePackage(DEBIAN_BINARY_2_0, [name |-> N_DATA_TAR_LZMA, framing |-> "alone"],
                    <<[path |-> BINARY_REL_PATH, content |-> b]>>) :
        b \in { BRAND_PATTERNS[1].old \o <<0>> \o BASE_IP,
                <<49, 48, 46, 48, 46, 48, 46, 49>> } }
    \cup { AR_MAGIC \o SrcMember(N_DEBIAN_BINARY, DEBIAN_BINARY_2_0)
                    \o SrcMember(N_CONTROL_TAR_GZ, GzipCompress(TarBytes(<<>>)))
                    \o SrcMember(N_DATA_TAR_LZMA,
                          lzma_compress_alone(TarBytes(<<[path |-> BINARY_REL_PATH,
                                                          content |-> BASE_IP]>>))) }

\* where the source package lies: under the default name of the branded
\* source, or under the name of the debranded base
StepSourcePaths == { BRANDED_DEFAULT, DEBRANDED_BASE }

NoStepRun ==
    [tool |-> "none", pc |-> "idle", input |-> <<>>, before |-> <<>>, after |-> <<>>,
     force |-> FALSE, keep_work |-> FALSE, tweak |-> FALSE, ips |-> <<>>,
     base_ip |-> <<>>, parsed |-> NoParsed, rc |-> 0, err |-> "none",
     work_left |-> FALSE, log |-> <<>>]

StepInit ==
    /\ \E src \in StepSources, at \in StepSourcePaths : stepDisk = DirPut(<<>>, at, src)
    /\ stepWork = [d \in StepDirs |-> NoTree]
    /\ stepRun = NoStepRun
    /\ stepHist = <<>>

StepIdle ==
    /\ stepDisk = <<>>
    /\ stepWork = [d \in StepDirs |-> NoTree]
    /\ stepRun = NoStepRun
    /\ stepHist = <<>>

\* the work directory of a tool
WorkDirOf(tool) ==
    CASE tool = "ip_changer" -> "deb_work_temp"
      [] tool = "debrand" -> "_debrand_work"
      [] tool = "change_maintainer" -> "temp_maintainer_change"

\* the run with one more step in its log
Logged(r, op, at, err) ==
    [r EXCEPT !.log = Append(@, [op |-> op, at |-> at, err |-> err])]

\* the run ended with exit status rc
Ended(r, rc, err) == [r EXCEPT !.pc = "done", !.rc = rc, !.err = err]

\* a new run of `tool` on the file at `input`
Started(tool, input) ==
    [NoStepRun EXCEPT !.tool = tool, !.input = input,
                      !.before = IF input \in DOMAIN stepDisk THEN stepDisk[input] ELSE <<>>]

\* the state a step leaves: the files, the work directories, and the run;
\* a run that has ended is filed with what it left on disk
StepTo(disk, work, r) ==
    /\ stepDisk' = disk
    /\ stepWork' = work
    /\ IF r.pc = "done"
       THEN /\ stepHist' = Append(stepHist,
                               [r EXCEPT !.after = IF r.input \in DOMAIN disk
                                                   THEN disk[r.input] ELSE <<>>,
                                         !.work_left = work[WorkDirOf(r.tool)].exists])
            /\ stepRun' = NoStepRun
       ELSE /\ stepRun' = r
            /\ UNCHANGED stepHist
    /\ UNCHANGED <<arVars, binVars, pkgVars, ctlVars, conVars, tarVars, monVars>>

CanStart == stepRun.pc = "idle" /\ Len(stepHist) < MaxToolRuns

\* what extract_deb leaves in self.work_dir when it raises: nothing new when
\* _parse_deb raised, the directory without the trees otherwise
IpFailedExtract(bytes, tree) ==
    IF ip_parse_deb(bytes).err # "none" THEN tree ELSE StepTree(<<>>, <<>>)

\* main, run_quick and batch_process_ips up to its loop: the addresses are
\* validated, the base is extracted and find_current_ip looks at the binary
StepIpExtract ==
    /\ CanStart
    /\ \E base \in DOMAIN stepDisk \cup { <<>> }, args \in StepIpArgs :
         \E r \in { [Started("ip_changer", IF base = <<>> THEN DEBRANDED_BASE ELSE base)
                        EXCEPT !.tweak = args.tweak,
                               !.ips = SelectSeq(args.ips, validate_ip)] } :
           IF r.ips = <<>>
           THEN StepTo(stepDisk, stepWork, Ended(r, 1, "NoValidIps"))
           ELSE IF r.input \notin DOMAIN stepDisk
           THEN StepTo(stepDisk, stepWork, Ended(r, 1, "BaseNotFound"))
           ELSE \E ex \in { ip_extract_deb(r.before) } :
                  IF ex.err # "none"
                  THEN StepTo(stepDisk,
                              [stepWork EXCEPT !["deb_work_temp"] =
                                                  IpFailedExtract(r.before, @)],
                              Ended(r, 1, ex.err))
                  ELSE \E base_ip \in { find_current_ip(ex.data_files) } :
                         StepTo(stepDisk,
                                [stepWork EXCEPT !["deb_work_temp"] =
                                                    StepTree(ex.control_files, ex.data_files)],
                                Logged([r EXCEPT !.base_ip = base_ip,
                                                 !.parsed = ex.parsed,
                                                 !.pc = IF base_ip = <<>> THEN "ip_cleanup"
                                                        ELSE "ip_reextract",
                                                 !.err = IF base_ip = <<>> THEN "NoIpInBinary"
                                                         ELSE "none"],
                                       "extract", r.input, "none"))

\* (the loop body of batch_process_ips without its extract_deb call)
reextracted_kept(tree, ex) == tree

\* the work directory after "Re-extract for clean state"
reextracted(tree, ex) == StepTree(ex.control_files, ex.data_files)

\* the loop body of batch_process_ips: extract_deb once more
StepIpReextract ==
    /\ stepRun.pc = "ip_reextract"
    /\ \E ex \in { ip_extract_deb(stepDisk[stepRun.input]) } :
         IF ex.err # "none"
         THEN StepTo(stepDisk,
                     [stepWork EXCEPT !["deb_work_temp"] =
                                         IpFailedExtract(stepDisk[stepRun.input], @)],
                     Ended(stepRun, 1, ex.err))
         ELSE StepTo(stepDisk,
                     [stepWork EXCEPT !["deb_work_temp"] = reextracted(@, ex)],
                     Logged([stepRun EXCEPT !.pc = "ip_patch", !.parsed = ex.parsed],
                            "extract", stepRun.input, "none"))

\* the loop of batch_process_ips goes on to the next address, or ends
IpNext(r) ==
    [r EXCEPT !.ips = Tail(@),
              !.pc = IF Tail(r.ips) = <<>> THEN "ip_cleanup" ELSE "ip_reextract"]

\* process_single_ip up to create_deb_package: replace_ip_in_binary, then
\* apply_latency_patches when --tweak is given
StepIpPatch ==
    /\ stepRun.pc = "ip_patch"
    /\ \E rep \in { replace_ip_in_binary(
                        TreeGet(stepWork["deb_work_temp"].data, BINARY_REL_PATH),
                        stepRun.base_ip, Head(stepRun.ips)) } :
         IF ~rep.ret
         THEN StepTo(stepDisk, stepWork,
                     Logged(IpNext(stepRun), "patch", <<>>,
                            IF rep.err = "none" THEN "ReplaceFailed" ELSE rep.err))
         ELSE \E patched \in { IF stepRun.tweak THEN apply_latency_patches(rep.data).data
                               ELSE rep.data } :
                StepTo(stepDisk,
                       [stepWork EXCEPT !["deb_work_temp"].data =
                                           TreePut(@, BINARY_REL_PATH, patched)],
                       Logged([stepRun EXCEPT !.pc = "ip_create"], "patch", <<>>, "none"))

\* the work directory as create_deb_package looks at it
AsWork(tree) == [control_files |-> tree.control, data_files |-> tree.data]

\* process_single_ip from "Create output" on: create_deb_package writes the
\* variant
StepIpCreate ==
    /\ stepRun.pc = "ip_create"
    /\ \E out \in { output_file(Head(stepRun.ips), stepRun.tweak) } :
         StepTo(DirPut(stepDisk, out,
                       create_deb_package(AsWork(stepWork["deb_work_temp"]),
                                          stepRun.parsed)),
                stepWork,
                Logged(IpNext(stepRun), "rebuild", out, "none"))

\* run_quick after batch_process_ips: cleanup(), return 0
StepIpCleanup ==
    /\ stepRun.pc = "ip_cleanup"
    /\ StepTo(stepDisk, [stepWork EXCEPT !["deb_work_temp"] = NoTree],
              Logged(Ended(stepRun, 0, stepRun.err), "cleanup", <<>>, "none"))

\* main of ios_debrand_end_to_end.py once the base is there: no addresses,
\* or none valid, and it returns 0; otherwise the loop over valid_ips starts
DbBaseReady(r) ==
    IF r.ips = <<>> THEN Ended(r, 0, "none") ELSE [r EXCEPT !.pc = "db_variant"]

\* main and build_debranded_base up to patch_branding: the base is kept when
\* it exists and --force-rebrand is not given, otherwise the work directory
\* is made anew and the branded source is extracted into it
StepDbExtract ==
    /\ CanStart
    /\ \E branded \in DOMAIN stepDisk, force \in BOOLEAN, keep_work \in BOOLEAN,
          ips \in { <<>>, <<NEW_IP>> } :
         \E r \in { [Started("debrand", branded)
                        EXCEPT !.force = force, !.keep_work = keep_work,
                               !.ips = SelectSeq(ips, validate_ip)] } :
           IF DEBRANDED_BASE \in DOMAIN stepDisk /\ ~force
           THEN StepTo(stepDisk, stepWork, DbBaseReady(r))
           ELSE \E ex \in { debrand_extract_deb(r.before) } :
                  IF ex.err # "none"
                  THEN StepTo(stepDisk,
                              [stepWork EXCEPT !["_debrand_work"] = StepTree(<<>>, <<>>)],
                              Ended(r, 1, ex.err))
                  ELSE \E x \in { Logged(r, "extract", branded, "none") } :
                         StepTo(stepDisk,
                                [stepWork EXCEPT !["_debrand_work"] =
                                                    StepTree(ex.control, ex.data)],
                                IF TreeHas(ex.data, BINARY_REL_PATH)
                                THEN [x EXCEPT !.pc = "db_patch"]
                                ELSE Ended(x, 1, "BinaryNotFound"))

\* build_debranded_base: patch_branding, then verify_no_branding
StepDbPatch ==
    /\ stepRun.pc = "db_patch"
    /\ \E pb \in { patch_branding(TreeGet(stepWork["_debrand_work"].data,
                                         BINARY_REL_PATH)) } :
         IF pb.err # "none"
         THEN StepTo(stepDisk, stepWork,
                     Ended(Logged(stepRun, "patch", <<>>, pb.err), 1, pb.err))
         ELSE \E x \in { Logged(stepRun, "patch", <<>>, "none") } :
                StepTo(stepDisk,
                       [stepWork EXCEPT !["_debrand_work"].data =
                                           TreePut(@, BINARY_REL_PATH, pb.data)],
                       IF verify_no_branding(pb.data)
                       THEN [x EXCEPT !.pc = "db_build"]
                       ELSE Ended(x, 1, "BrandingRemains"))

\* build_debranded_base: deb_packer.build_deb(work, base)
StepDbBuild ==
    /\ stepRun.pc = "db_build"
    /\ StepTo(DirPut(stepDisk, DEBRANDED_BASE,
                     build_deb(stepWork["_debrand_work"].control,
                               stepWork["_debrand_work"].data)),
              stepWork,
              Logged([stepRun EXCEPT !.pc = "db_validate"],
                     "rebuild", DEBRANDED_BASE, "none"))

\* build_debranded_base: validate_deb.py is run on the base; when it fails
\* RuntimeError is raised, otherwise the work directory is removed
StepDbValidate ==
    /\ stepRun.pc = "db_validate"
    /\ IF validate_deb_main(stepDisk[DEBRANDED_BASE]).rc # 0
       THEN StepTo(stepDisk, stepWork,
                   Ended(Logged(stepRun, "validate", DEBRANDED_BASE, "ValidationFailed"),
                         1, "ValidationFailed"))
       ELSE StepTo(stepDisk, [stepWork EXCEPT !["_debrand_work"] = NoTree],
                   DbBaseReady(Logged(stepRun, "validate", DEBRANDED_BASE, "none")))

\* the files after a run of the variant generator that left `dir`
WithVariant(disk, ip, dir) ==
    IF VariantName(ip, FALSE) \in DOMAIN dir
    THEN DirPut(disk, output_file(ip, FALSE), dir[VariantName(ip, FALSE)])
    ELSE disk

\* the loop of main over valid_ips: generate_ip_variant runs
\* ios_deb_ip_changer_final.py --base iosvcam_base.deb <ip> and raises when
\* its exit status is not 0
StepDbVariant ==
    /\ stepRun.pc = "db_variant"
    /\ \E ip \in { Head(stepRun.ips) } :
         \E v \in { ip_changer_main(stepDisk[DEBRANDED_BASE], <<ip>>, FALSE, <<>>) } :
           \E x \in { Logged([stepRun EXCEPT !.ips = Tail(@)], "variant",
                             output_file(ip, FALSE),
                             IF v.rc # 0 THEN "IpChangerFailed" ELSE v.err) } :
             StepTo(WithVariant(stepDisk, ip, v.dir),
                    [stepWork EXCEPT !["deb_work_temp"] =
                        IF v.rc = 0 THEN NoTree
                        ELSE IpFailedExtract(stepDisk[DEBRANDED_BASE], @)],
                    IF v.rc # 0 THEN Ended(x, 1, "IpChangerFailed")
                    ELSE IF x.ips = <<>> THEN Ended(x, 0, "none")
                    ELSE x)

\* main of change_maintainer.py up to modify_maintainer: the backup is made
\* when there is none, the work directory is made anew, the input is
\* extracted and the control file is looked for
StepCmExtract ==
    /\ CanStart
    /\ \E input \in DOMAIN stepDisk :
         \E r \in { Started("change_maintainer", input) } :
           \E disk \in { IF with_suffix(input, DOT_DEB_BACKUP) \in DOMAIN stepDisk
                         THEN stepDisk
                         ELSE DirPut(stepDisk, with_suffix(input, DOT_DEB_BACKUP),
                                     r.before) } :
             \E ex \in { cm_extract_deb(r.before) } :
               \E x \in { Logged(r, "backup", with_suffix(input, DOT_DEB_BACKUP), "none") } :
                 IF ex.err # "none"
                 THEN StepTo(disk,
                             [stepWork EXCEPT !["temp_maintainer_change"] =
                                                 StepTree(<<>>, <<>>)],
                             Ended(x, 1, ex.err))
                 ELSE StepTo(disk,
                             [stepWork EXCEPT !["temp_maintainer_change"] =
                                                 StepTree(ex.control, ex.data)],
                             IF TreeHas(ex.control, "control")
                             THEN Logged([x EXCEPT !.pc = "cm_modify"],
                                         "extract", input, "none")
                             ELSE Ended(Logged(x, "extract", input, "none"),
                                        1, "NoControlFile"))

\* main: modify_maintainer(control_file, "kox", None, False)
StepCmModify ==
    /\ stepRun.pc = "cm_modify"
    /\ StepTo(stepDisk,
              [stepWork EXCEPT !["temp_maintainer_change"].control =
                  TreePut(@, "control",
                          modify_maintainer(TreeGet(@, "control"),
                                            DEFAULT_MAINTAINER, <<>>, FALSE))],
              Logged([stepRun EXCEPT !.pc = "cm_repack"], "patch", <<>>, "none"))

\* main from "Repack" on: repack_deb writes <input>.modified.deb and the work
\* directory is removed
StepCmRepack ==
    /\ stepRun.pc = "cm_repack"
    /\ \E out \in { with_suffix(stepRun.input, DOT_MODIFIED_DEB) } :
         StepTo(DirPut(stepDisk, out,
                       repack_deb(stepWork["temp_maintainer_change"].control,
                                  stepWork["temp_maintainer_change"].data)),
                [stepWork EXCEPT !["temp_maintainer_change"] = NoTree],
                Ended(Logged(stepRun, "rebuild", out, "none"), 0, "none"))

StepNext ==
    \/ StepIpExtract
    \/ StepIpReextract
    \/ StepIpPatch
    \/ StepIpCreate
    \/ StepIpCleanup
    \/ StepDbExtract
    \/ StepDbPatch
    \/ StepDbBuild
    \/ StepDbValidate
    \/ StepDbVariant
    \/ StepCmExtract
    \/ StepCmModify
    \/ StepCmRepack

----------------------------------------------------------------------------
(* The runs, step by step: properties.                                     *)

\* the runs that have ended and the run in progress
RunsSeen ==
    { stepHist[i] : i \in DOMAIN stepHist }
        \cup (IF stepRun.tool = "none" THEN {} ELSE { stepRun })

\* positions of the steps `op` in a log
StepsOf(log, op) == { i \in DOMAIN log : log[i].op = op }

\* extraction, patch and rebuild follow each other in every pass over the
\* source: a patch follows an extraction with no rebuild in between, and a
\* rebuild follows a patch with no extraction in between
PassesInOrder(log) ==
    /\ \A j \in StepsOf(log, "patch") :
          \E i \in StepsOf(log, "extract") :
              i < j /\ \A k \in StepsOf(log, "rebuild") : ~(i < k /\ k < j)
    /\ \A j \in StepsOf(log, "rebuild") :
          \E i \in StepsOf(log, "patch") :
              i < j /\ \A k \in StepsOf(log, "extract") : ~(i < k /\ k < j)

\* one pass only: every extraction precedes every patch, and every patch
\* precedes every rebuild
OnePass(log) ==
    /\ \A i \in StepsOf(log, "extract"), j \in StepsOf(log, "patch") : i < j
    /\ \A i \in StepsOf(log, "patch"), j \in StepsOf(log, "rebuild") : i < j

\* what extract_deb makes of the run's source as it is on disk
FreshTree ==
    Bind(ip_extract_deb(stepDisk[stepRun.input]), LAMBDA ex :
        StepTree(ex.control_files, ex.data_files))

\* the binary with the patches of the variant in progress, and no other
OwnPatches(binary) ==
    Bind(replace_ip_in_binary(binary, stepRun.base_ip, Head(stepRun.ips)).data,
         LAMBDA d : IF stepRun.tweak THEN apply_latency_patches(d).data ELSE d)

\* the binary inside a package
BinaryOf(pkg) == TreeGet(ip_extract_deb(pkg).data_files, BINARY_REL_PATH)

\* C21: in every run mode a pass over the source is extraction, then the
\* patches, then the rebuild; a debranded-base build and a maintainer change
\* make one pass, the variant generator makes one pass per address.  In a
\* batch the tree a variant is patched in is the tree extract_deb makes of the
\* source, the tree a variant is built from differs from it by that variant's
\* patches only, and no variant written during the batch holds the address of
\* another variant of the batch.
C21_ExtractPatchRebuild ==
    /\ \A r \in RunsSeen :
          /\ PassesInOrder(r.log)
          /\ r.tool \in { "debrand", "change_maintainer" } => OnePass(r.log)
    /\ stepRun.pc = "ip_patch" => stepWork["deb_work_temp"] = FreshTree
    /\ stepRun.pc = "ip_create" =>
          /\ stepWork["deb_work_temp"].control = FreshTree.control
          /\ stepWork["deb_work_temp"].data =
                TreePut(FreshTree.data, BINARY_REL_PATH,
                        OwnPatches(TreeGet(FreshTree.data, BINARY_REL_PATH)))
    /\ stepRun.tool = "ip_changer" =>
          \A j \in StepsOf(stepRun.log, "rebuild"), own \in { NEW_IP, IP_200 } :
              stepRun.log[j].at = output_file(own, stepRun.tweak)
              => \A other \in { NEW_IP, IP_200 } \ { own } :
                    ~Contains(BinaryOf(stepDisk[stepRun.log[j].at]), other)

\* a batch has written its second variant, and a debranded-base build and a
\* maintainer change have written their packages
C21_Witness ==
    /\ stepRun.tool = "ip_changer"
    /\ Cardinality(StepsOf(stepRun.log, "rebuild")) = 2
    /\ \E r \in RunsSeen : r.tool \in { "debrand", "change_maintainer" }
                           /\ StepsOf(r.log, "rebuild") # {}

\* C22: a run in which a literal patch failed on a length mismatch writes no
\* package from then on and ends with a non-zero exit status.
C22_LengthMismatchStops ==
    \A r \in RunsSeen :
        \A i \in StepsOf(r.log, "patch") :
            r.log[i].err = "LengthMismatch"
            => /\ \A j \in DOMAIN r.log :
                      j > i => r.log[j].op \notin { "extract", "patch", "rebuild" }
               /\ r.pc = "done" => r.rc # 0

\* C23: no step of a run writes a file under the path of the package the run
\* read, and when the run has ended that file holds the bytes it held when
\* the run started.
C23_SourceUntouched ==
    \A r \in RunsSeen :
        /\ \A i \in DOMAIN r.log :
              r.log[i].op \in { "backup", "rebuild", "variant" } => r.log[i].at # r.input
        /\ r.pc = "done" => r.after = r.before

\* C24: when a run that wrote its output package has ended, its work
\* directory is still on disk if the run was given --keep-work, and is gone
\* if it was not.
C24_WorkRemovedUnlessKept ==
    \A i \in DOMAIN stepHist :
        StepsOf(stepHist[i].log, "rebuild") # {}
        => stepHist[i].work_left = stepHist[i].keep_work

\* build_debranded_base has written iosvcam_base.deb in some run (no other
\* step writes under that path)
BaseWasBuilt ==
    \E r \in RunsSeen : r.tool = "debrand" /\ StepsOf(r.log, "rebuild") # {}

\* C29: whenever the debranding tool is about to generate a variant from a
\* base that build_debranded_base wrote, validate_deb.py accepts that base
\* and its binary holds no "bkatm" in any case.
C29_VariantsFromValidBase ==
    (stepRun.tool = "debrand" /\ stepRun.pc = "db_variant" /\ BaseWasBuilt)
    => /\ validate_deb_main(stepDisk[DEBRANDED_BASE]).rc = 0
       /\ verify_no_branding(BinaryOf(stepDisk[DEBRANDED_BASE]))

----------------------------------------------------------------------------
(* File-archive builders.  A staged tree is the list of its directories    *)
(* and files in the order the file system lists them; an archive is the    *)
(* list of the headers (TarInfo) written to it.  Modes are the numbers     *)
(* 0o755 = 493 and 0o644 = 420.                                            *)

\* '/'.join(parts)
RECURSIVE JoinPath(_)
JoinPath(parts) ==
    IF parts = <<>> THEN <<>>
    ELSE IF Len(parts) = 1 THEN parts[1]
    ELSE parts[1] \o <<47>> \o JoinPath(Tail(parts))

\* the entries of directory `dir` of the tree, as os.scandir lists them
ChildrenIn(tree, dir) ==
    SelectSeq(tree, LAMBDA n : SubSeq(n.path, 1, Len(n.path) - 1) = dir)

DirsIn(tree, dir) == SelectSeq(ChildrenIn(tree, dir), LAMBDA n : n.kind = "dir")

FilesIn(tree, dir) == SelectSeq(ChildrenIn(tree, dir), LAMBDA n : n.kind = "file")

\* os.walk(top), top-down: (root, dirs, files) of top, then of every
\* directory below it
RECURSIVE os_walk(_, _), walk_dirs(_, _)
os_walk(tree, top) ==
    << [root |-> top, dirs |-> DirsIn(tree, top), files |-> FilesIn(tree, top)] >>
        \o walk_dirs(tree, DirsIn(tree, top))

walk_dirs(tree, dirs) ==
    IF dirs = <<>> THEN <<>>
    ELSE os_walk(tree, Head(dirs).path) \o walk_dirs(tree, Tail(dirs))

\* Path.rglob("*"): the entries of every directory, top-down
RECURSIVE rglob_of(_, _)
rglob_of(tree, walked) ==
    IF walked = <<>> THEN <<>>
    ELSE ChildrenIn(tree, Head(walked).root) \o rglob_of(tree, Tail(walked))

rglob(tree) == rglob_of(tree, os_walk(tree, <<>>))

\* tarfile.TarInfo(name): the header with its default fields
TarInfo(name) ==
    [name |-> name, type |-> "file", mode |-> 420, uid |-> 0, gid |-> 0,
     uname |-> "", gname |-> "", mtime |-> 0]

\* TarFile.gettarinfo(path, arcname), which tar.add uses too: the header is
\* filled from os.stat and the user database of the build host
gettarinfo(n, host) ==
    [name |-> JoinPath(n.path), type |-> n.kind,
     mode |-> IF n.kind = "dir" THEN 493 ELSE host.fmode,
     uid |-> host.uid, gid |-> host.gid, uname |-> host.uname, gname |-> host.gname,
     mtime |-> host.mtime]

\* mach_o_magics
MACH_O_MAGICS ==
    { <<254, 237, 250, 206>>, <<206, 250, 237, 254>>, <<254, 237, 250, 207>>,
      <<207, 250, 237, 254>>, <<202, 254, 186, 190>>, <<190, 186, 254, 202>> }

\* is_executable of _build_data_tar_from_dir for the file n: the extensions
\* ".dylib" and ".app", '/bin/' or '/sbin/' in arcname, the file named like
\* the .app directory it lies in, and the Mach-O magic numbers
is_executable(n) ==
    LET name == n.path[Len(n.path)]
        arcname == JoinPath(n.path)
        parent_dir == IF Len(n.path) > 1 THEN n.path[Len(n.path) - 1] ELSE <<>>
    IN  \/ EndsWith(name, <<46, 100, 121, 108, 105, 98>>)
        \/ EndsWith(name, <<46, 97, 112, 112>>)
        \/ Contains(arcname, <<47, 98, 105, 110, 47>>)
        \/ Contains(arcname, <<47, 115, 98, 105, 110, 47>>)
        \/ /\ Contains(arcname, <<46, 97, 112, 112, 47>>)
           /\ EndsWith(parent_dir, <<46, 97, 112, 112>>)
           /\ SubSeq(parent_dir, 1, Len(parent_dir) - 4) = name
        \/ Take(n.content, 4) \in MACH_O_MAGICS

\* the headers _build_data_tar_from_dir (the second definition, which is the
\* one in effect) writes for one directory of the walk: its files, then its
\* directories
ip_data_headers(w, host) ==
    [i \in 1..Len(w.files) |->
        [gettarinfo(w.files[i], host) EXCEPT
            !.uid = 0, !.gid = 0, !.uname = "root", !.gname = "wheel",
            !.mode = IF is_executable(w.files[i]) THEN 493 ELSE 420]]
    \o [i \in 1..Len(w.dirs) |->
        [TarInfo(JoinPath(w.dirs[i].path)) EXCEPT
            !.type = "dir", !.uid = 0, !.gid = 0, !.uname = "root",
            !.gname = "wheel", !.mode = 493]]

\* the names ['postinst', 'prerm', 'postrm', 'preinst', 'config']
CONTROL_SCRIPTS ==
    { <<112, 111, 115, 116, 105, 110, 115, 116>>, <<112, 114, 101, 114, 109>>,
      <<112, 111, 115, 116, 114, 109>>, <<112, 114, 101, 105, 110, 115, 116>>,
      <<99, 111, 110, 102, 105, 103>> }

\* the headers _build_control_tar_gz_from_dir writes for one directory of the
\* walk: its files
ip_control_headers(w, host) ==
    [i \in 1..Len(w.files) |->
        [gettarinfo(w.files[i], host) EXCEPT
            !.uid = 0, !.gid = 0, !.uname = "root", !.gname = "wheel",
            !.mode = IF w.files[i].path[Len(w.files[i].path)] \in CONTROL_SCRIPTS
                     THEN 493 ELSE 420]]

\* the headers of every directory of the walk, one after the other
RECURSIVE ConcatAll(_)
ConcatAll(seqs) ==
    IF seqs = <<>> THEN <<>> ELSE Head(seqs) \o ConcatAll(Tail(seqs))

\* DebIPChanger._build_data_tar_from_dir(data_dir)
ip_build_data_tar(tree, host) ==
    LET walked == os_walk(tree, <<>>)
    IN  ConcatAll([i \in 1..Len(walked) |-> ip_data_headers(walked[i], host)])

\* DebIPChanger._build_control_tar_gz_from_dir(control_dir)
ip_build_control_tar(tree, host) ==
    LET walked == os_walk(tree, <<>>)
    IN  ConcatAll([i \in 1..Len(walked) |-> ip_control_headers(walked[i], host)])

\* tar.add(p, arcname=...) for every p of a list
tar_add(nodes, host) == [i \in 1..Len(nodes) |-> gettarinfo(nodes[i], host)]

\* deb_packer.build_control_tar and deb_packer.build_data_tar: the
\* directories first, then the files
packer_build_tar(tree, host) ==
    tar_add(SelectSeq(rglob(tree), LAMBDA n : n.kind = "dir"), host)
        \o tar_add(SelectSeq(rglob(tree), LAMBDA n : n.kind = "file"), host)

\* change_maintainer.build_control_tar and change_maintainer.build_data_tar:
\* the files
cm_build_tar(tree, host) ==
    tar_add(SelectSeq(rglob(tree), LAMBDA n : n.kind = "file"), host)

\* the builders; the archive each builds is the metadata or the payload one
TarBuilders ==
    { "ip_data", "ip_control", "packer_data", "packer_control", "cm_data", "cm_control" }

BuildTar(builder, tree, host) ==
    CASE builder = "ip_data" -> ip_build_data_tar(tree, host)
      [] builder = "ip_control" -> ip_build_control_tar(tree, host)
      [] builder \in { "packer_data", "packer_control" } -> packer_build_tar(tree, host)
      [] builder \in { "cm_data", "cm_control" } -> cm_build_tar(tree, host)

----------------------------------------------------------------------------
(* File-archive builders: the state machine.  A tree is staged on a build  *)
(* host and one builder is called on it.                                   *)

TarDir(path) == [path |-> path, kind |-> "dir", content |-> <<>>]

TarFile(path, content) == [path |-> path, kind |-> "file", content |-> content]

\* the staged trees ("hi\n" is the content of the text files):
\*   usr/, usr/bin/, usr/bin/tool, a.dylib
\*   VCam.app/, VCam.app/VCam, m (a Mach-O file)
\*   control, postinst
\*   empty/, bin/, bin/sh, readme
\*   usr/, usr/sbin/, usr/sbin/tool, empty/
TarTrees ==
    LET hi == <<104, 105, 10>>
        usr == <<117, 115, 114>>
        bin == <<98, 105, 110>>
        sbin == <<115, 98, 105, 110>>
        tool == <<116, 111, 111, 108>>
        app == <<86, 67, 97, 109, 46, 97, 112, 112>>
        empty == <<101, 109, 112, 116, 121>>
    IN  { << TarDir(<<usr>>), TarDir(<<usr, bin>>), TarFile(<<usr, bin, tool>>, hi),
             TarFile(<< <<97, 46, 100, 121, 108, 105, 98>> >>, hi) >>,
          << TarDir(<<app>>), TarFile(<<app, <<86, 67, 97, 109>> >>, hi),
             TarFile(<< <<109>> >>, <<207, 250, 237, 254, 7, 0>>) >>,
          << TarFile(<< <<99, 111, 110, 116, 114, 111, 108>> >>, hi),
             TarFile(<< <<112, 111, 115, 116, 105, 110, 115, 116>> >>, hi) >>,
          << TarDir(<<empty>>), TarDir(<<bin>>), TarFile(<<bin, <<115, 104>> >>, hi),
             TarFile(<< <<114, 101, 97, 100, 109, 101>> >>, hi) >>,
          << TarDir(<<usr>>), TarDir(<<usr, sbin>>), TarFile(<<usr, sbin, tool>>, hi),
             TarDir(<<empty>>) >> }

\* the build hosts: the user who runs the tool, the mode the file system
\* reports for regular files, and the modification time of the staged files
\* (0, or 1 for any later time)
TarHosts ==
    { [uid |-> o.uid, gid |-> o.gid, uname |-> o.uname, gname |-> o.gname,
       fmode |-> fmode, mtime |-> mtime] :
        o \in { [uid |-> 0, gid |-> 0, uname |-> "root", gname |-> "root"],
                [uid |-> 501, gid |-> 20, uname |-> "mobile", gname |-> "staff"] },
        fmode \in { 420, 493 },
        mtime \in { 0, 1 } }

NoArchive == [builder |-> "none", entries |-> <<>>]

TarInit ==
    /\ tarTree \in TarTrees
    /\ tarHost \in TarHosts
    /\ tarOut = NoArchive

TarIdle ==
    /\ tarTree = <<>>
    /\ tarHost = [uid |-> 0, gid |-> 0, uname |-> "root", gname |-> "root",
                  fmode |-> 420, mtime |-> 0]
    /\ tarOut = NoArchive

\* one builder is called on the staged tree
TarBuild ==
    /\ tarOut = NoArchive
    /\ \E builder \in TarBuilders :
         tarOut' = [builder |-> builder, entries |-> BuildTar(builder, tarTree, tarHost)]
    /\ UNCHANGED <<tarTree, tarHost>>
    /\ UNCHANGED <<arVars, binVars, pkgVars, ctlVars, conVars, stepVars, monVars>>

----------------------------------------------------------------------------
(* File-archive builders: properties.                                      *)

\* the node of the staged tree an entry of the archive was written for
NodeNamed(name) ==
    CHOOSE n \in { tarTree[k] : k \in 1..Len(tarTree) } : JoinPath(n.path) = name

\* the archives that are metadata archives, and those that are payload ones
MetadataBuilders == { "ip_control", "packer_control", "cm_control" }

PayloadBuilders == { "ip_data", "packer_data", "cm_data" }

\* the install and remove hook scripts: preinst, postinst, prerm, postrm
HookScripts ==
    { <<112, 114, 101, 105, 110, 115, 116>>, <<112, 111, 115, 116, 105, 110, 115, 116>>,
      <<112, 114, 101, 114, 109>>, <<112, 111, 115, 116, 114, 109>> }

\* the path of n goes through a directory named bin or sbin
TraversesBin(n) ==
    \E i \in 1..(Len(n.path) - 1) :
        n.path[i] \in { <<98, 105, 110>>, <<115, 98, 105, 110>> }

\* the mode the three rules give the file n, in their order of priority
RuleMode(n, metadata) ==
    LET name == n.path[Len(n.path)]
    IN  IF metadata /\ name \in HookScripts THEN 493
        ELSE IF \/ EndsWith(name, <<46, 100, 121, 108, 105, 98>>)
                \/ EndsWith(name, <<46, 97, 112, 112>>)
                \/ TraversesBin(n) THEN 493
        ELSE IF Take(n.content, 4) \in MACH_O_MAGICS THEN 493
        ELSE 420

\* C25: every regular file written by the payload builder and by the
\* metadata builder of the address changer has mode rwxr-xr-x exactly when
\* one of the three rules holds for it, and mode rw-r--r-- otherwise.
C25_ModeRules ==
    tarOut.builder \in { "ip_data", "ip_control" } =>
        \A i \in 1..Len(tarOut.entries) :
            tarOut.entries[i].type = "file" =>
                tarOut.entries[i].mode
                    = RuleMode(NodeNamed(tarOut.entries[i].name),
                               tarOut.builder = "ip_control")

\* C26: every entry of a payload archive is owned by root, group root, and
\* every entry of a metadata archive by root, group wheel, whoever owns the
\* staged files.
C26_Owners ==
    \A i \in 1..Len(tarOut.entries) :
        /\ tarOut.entries[i].uname = "root"
        /\ tarOut.builder \in PayloadBuilders => tarOut.entries[i].gname = "root"
        /\ tarOut.builder \in MetadataBuilders => tarOut.entries[i].gname = "wheel"

\* C27: every entry of a built archive has timestamp zero, and the archive
\* is the one the same builder writes for the same tree when the staged
\* files have another modification time.
C27_Deterministic ==
    tarOut # NoArchive =>
        /\ \A i \in 1..Len(tarOut.entries) : tarOut.entries[i].mtime = 0
        /\ \A mtime \in { 0, 1 } :
             tarOut.entries
                 = BuildTar(tarOut.builder, tarTree, [tarHost EXCEPT !.mtime = mtime])

\* C28: every directory of the staged tree, the empty ones too, has a
\* directory entry in the built archive, and the entry comes before the
\* entries of everything below the directory.
C28_DirsFirst ==
    tarOut # NoArchive =>
        \A k \in 1..Len(tarTree) :
            tarTree[k].kind = "dir" =>
                \E i \in 1..Len(tarOut.entries) :
                    /\ tarOut.entries[i].type = "dir"
                    /\ tarOut.entries[i].name = JoinPath(tarTree[k].path)
                    /\ \A j \in 1..Len(tarOut.entries) :
                         StartsWith(tarOut.entries[j].name,
                                    JoinPath(tarTree[k].path) \o <<47>>) => i < j

----------------------------------------------------------------------------
(* The USB tethering monitor: USBTetheringMonitor.monitor_connection.      *)
(* One action is one pass of the loop: the poll, the branch taken and the  *)
(* sleep.  Times are in seconds.                                           *)

\* the passes of the loop that are followed
MaxPolls == 8

\* poll_interval: float = 5.0
PollInterval == 5

\* RECONNECT_GRACE_PERIOD = 30  # seconds
RECONNECT_GRACE_PERIOD == 30

\* the time from one poll to the next: the sleep, and the sleep after a probe
\* that took as long again
PollGaps == { PollInterval, 2 * PollInterval }

\* the states of ConnectionState the monitor is in when monitoring starts
\* (a new monitor, or one whose wait_for_connection has returned) or that
\* monitor_connection assigns
ConnectionState == { "DISCONNECTED", "CONNECTED", "RECONNECTING" }

\* self.state and self.tethering_info, the locals last_connected and
\* reconnect_start_time (<<>> is None), and self._stop_event; the clock and
\* the number of polls taken; what has been observed: the outcome of the
\* latest poll, the time of the first poll without connectivity since the
\* latest poll with it (<<>> when the latest poll had it), and the calls of
\* the callback
MonInit ==
    /\ \E state \in { "DISCONNECTED", "CONNECTED" } :
         mon = [state |-> state, tethering_info |-> state = "CONNECTED",
                last_connected |-> FALSE, reconnect_start_time |-> <<>>,
                stopped |-> FALSE]
    /\ monClock = [now |-> 0, polls |-> 0]
    /\ monSeen = [poll |-> "none", loss_at |-> <<>>, calls |-> <<>>]

MonIdle ==
    /\ mon = [state |-> "DISCONNECTED", tethering_info |-> FALSE,
              last_connected |-> FALSE, reconnect_start_time |-> <<>>,
              stopped |-> TRUE]
    /\ monClock = [now |-> 0, polls |-> 0]
    /\ monSeen = [poll |-> "none", loss_at |-> <<>>, calls |-> <<>>]

MonOthersUnchanged ==
    UNCHANGED <<arVars, binVars, pkgVars, ctlVars, conVars, stepVars, tarVars>>

\* while not self._stop_event.is_set()
MonLooping == ~mon.stopped /\ monClock.polls < MaxPolls

\* time.sleep(poll_interval), and the next poll
Slept(gap) == [now |-> monClock.now + gap, polls |-> monClock.polls + 1]

\* the poll of this pass is recorded; call is the callback's call, if any
Observed(connected, call) ==
    [poll |-> IF connected THEN "up" ELSE "down",
     loss_at |-> IF connected THEN <<>>
                 ELSE IF monSeen.loss_at = <<>> THEN <<monClock.now>>
                 ELSE monSeen.loss_at,
     calls |-> monSeen.calls \o call]

\* a pass whose poll gives what last_connected holds: nothing is assigned
MonSame ==
    /\ MonLooping
    /\ \E connected \in BOOLEAN, gap \in PollGaps :
         /\ connected = mon.last_connected
         /\ monClock' = Slept(gap)
         /\ monSeen' = Observed(connected, <<>>)
    /\ UNCHANGED mon
    /\ MonOthersUnchanged

\* a pass whose poll finds the connection while last_connected is False
MonRestored ==
    /\ MonLooping
    /\ ~mon.last_connected
    /\ mon' = [mon EXCEPT !.state = "CONNECTED", !.tethering_info = TRUE,
                          !.reconnect_start_time = <<>>, !.last_connected = TRUE]
    /\ \E gap \in PollGaps : monClock' = Slept(gap)
    /\ monSeen' = Observed(TRUE, << [connected |-> TRUE, at |-> monClock.now,
                                     absent_for |-> 0] >>)
    /\ MonOthersUnchanged

\* reconnect_start_time after "if reconnect_start_time is None"
GraceStart ==
    IF mon.reconnect_start_time = <<>> THEN monClock.now
    ELSE mon.reconnect_start_time[1]

\* a pass whose poll finds no connection while last_connected is True, with
\* the grace period still running: last_connected is left as it is
MonGrace ==
    /\ MonLooping
    /\ mon.last_connected
    /\ monClock.now - GraceStart < RECONNECT_GRACE_PERIOD
    /\ mon' = [mon EXCEPT
                 !.reconnect_start_time = <<GraceStart>>,
                 !.state = IF mon.reconnect_start_time = <<>>
                           THEN "RECONNECTING" ELSE @]
    /\ \E gap \in PollGaps : monClock' = Slept(gap)
    /\ monSeen' = Observed(FALSE, <<>>)
    /\ MonOthersUnchanged

\* the same with the grace period over: the disconnect is reported
MonExpired ==
    /\ MonLooping
    /\ mon.last_connected
    /\ monClock.now - GraceStart >= RECONNECT_GRACE_PERIOD
    /\ mon' = [mon EXCEPT !.state = "DISCONNECTED", !.tethering_info = FALSE,
                          !.reconnect_start_time = <<>>, !.last_connected = FALSE]
    /\ \E gap \in PollGaps : monClock' = Slept(gap)
    /\ monSeen' =
         Observed(FALSE,
                  << [connected |-> FALSE, at |-> monClock.now,
                      absent_for |-> monClock.now - Observed(FALSE, <<>>).loss_at[1]] >>)
    /\ MonOthersUnchanged

\* USBTetheringMonitor.stop()
MonStop ==
    /\ ~mon.stopped
    /\ mon' = [mon EXCEPT !.stopped = TRUE]
    /\ UNCHANGED <<monClock, monSeen>>
    /\ MonOthersUnchanged

MonNext ==
    \/ MonSame
    \/ MonRestored
    \/ MonGrace
    \/ MonExpired
    \/ MonStop

----------------------------------------------------------------------------
(* The USB tethering monitor: properties.                                  *)

\* C30: the callback is called with False only after connectivity has been
\* absent on every poll for the grace period of 30 seconds; once a poll has
\* found the connection again, nothing of the loss before it is kept; and
\* the state is CONNECTED after every poll that found the connection.
C30_GracePeriod ==
    /\ \A i \in 1..Len(monSeen.calls) :
         ~monSeen.calls[i].connected =>
             monSeen.calls[i].absent_for >= RECONNECT_GRACE_PERIOD
    /\ monSeen.poll = "up" =>
         /\ mon.reconnect_start_time = <<>>
         /\ mon.state = "CONNECTED"

----------------------------------------------------------------------------
(* The tools: properties.                                                  *)

\* the payload member of the source package, as the validator's reader sees it
SrcPayload ==
    Bind(read_members(srcDeb).members, LAMBDA ms : ms[IndexOfPrefix(ms, N_DATA_TAR)])

\* C1: every package written by a tool holds exactly the three members
\* debian-binary, control.tar.gz, data.tar.lzma, in this order, and its
\* payload is an LZMA-alone stream (signature 5d 00 00) of a tar archive,
\* whatever the name and the framing of the source package's payload member.
C1_ThreeMembersLegacyPayload ==
    \A pkg \in Outputs :
        Bind(read_members(pkg), LAMBDA rd :
            /\ rd.err = "none"
            /\ NamesOf(rd.members) = <<N_DEBIAN_BINARY, N_CONTROL_TAR_GZ, N_DATA_TAR_LZMA>>
            /\ StartsWith(rd.members[3].content, <<93, 0, 0>>)
            /\ lzma_decompress_alone(rd.members[3].content).err = "none"
            /\ UnTar(lzma_decompress_alone(rd.members[3].content).raw).err = "none")

\* a package was written from a source whose payload member is neither
\* named data.tar.lzma nor an LZMA-alone stream
C1_Witness ==
    /\ lastRun.rc = 0
    /\ lastRun.input = srcDeb
    /\ Outputs # {}
    /\ SrcPayload.name # N_DATA_TAR_LZMA
    /\ ~StartsWith(SrcPayload.content, LZMA_ALONE_HEADER)

\* C2: in every package a tool has written, the content of the member
\* debian-binary is exactly b"2.0\n".
C2_VersionStampFixed ==
    \A pkg \in Outputs :
        Bind(read_members(pkg).members, LAMBDA ms :
            ContentAt(ms, IndexOfName(ms, N_DEBIAN_BINARY)) = DEBIAN_BINARY_2_0)

\* the 1-based positions a patch covers
PatchRange(p) == (p.offset + 1)..(p.offset + Len(p.old))

\* C10: in a run with --tweak, for each variant: a patch overwrites its
\* range with its new bytes exactly when the range held its expected bytes;
\* every other byte of the binary, the ranges of mismatching patches and of
\* patches past the end of the file included, is as it was; the count is the
\* number of patches whose range matched, wherever they stand in the list;
\* and the run ends with status 0 and the variant package on disk, holding
\* that binary, also when the count is 0.
C10_VerifyBeforeWrite ==
    \A i \in 1..Len(lastRun.results) :
        Bind(lastRun.results[i], LAMBDA r :
            (r.ok /\ r.tweaked) =>
                /\ Len(r.after) = Len(r.before)
                /\ \A j \in 1..Len(patches) :
                      PatchMatches(r.before, patches[j])
                          => Slice(r.after, patches[j].offset,
                                   patches[j].offset + Len(patches[j].old)) = patches[j].new
                /\ \A k \in 1..Len(r.before) :
                      (\A j \in 1..Len(patches) :
                          ~(PatchMatches(r.before, patches[j]) /\ k \in PatchRange(patches[j])))
                          => r.after[k] = r.before[k]
                /\ r.applied = Cardinality({ j \in 1..Len(patches) :
                                               PatchMatches(r.before, patches[j]) })
                /\ lastRun.rc = 0
                /\ VariantName(r.ip, TRUE) \in DOMAIN outDir
                /\ TreeGet(ip_extract_deb(outDir[VariantName(r.ip, TRUE)]).data_files,
                           BINARY_REL_PATH) = r.after)

\* a variant was produced with --tweak although no patch applied: some
\* patches found other bytes, one lies past the end of the binary
C10_Witness ==
    \E i \in 1..Len(lastRun.results) :
        Bind(lastRun.results[i], LAMBDA r :
            /\ r.ok /\ r.tweaked /\ r.applied = 0
            /\ VariantName(r.ip, TRUE) \in DOMAIN outDir
            /\ \E j \in 1..Len(patches) : patches[j].offset + Len(patches[j].old) > Len(r.before)
            /\ \E j \in 1..Len(patches) :
                  /\ patches[j].offset + Len(patches[j].old) <= Len(r.before)
                  /\ ~PatchMatches(r.before, patches[j]))

\* the members of a package, as the validator's reader sees them
MembersOf(pkg) == read_members(pkg).members

\* C16: a package written by a tool from a source whose version stamp is
\* b"2.0\n" (the sources hold a control file and a payload of one file)
\* passes the validator; with its version stamp changed to anything else the
\* validator fails with "wrong debian-binary contents".
C16_AssembledValidates ==
    ( /\ valRun.done
      /\ valRun.pkg \in Outputs
      /\ srcDeb \in SourcePackages
      /\ ContentAt(MembersOf(srcDeb), IndexOfName(MembersOf(srcDeb), N_DEBIAN_BINARY))
            = DEBIAN_BINARY_2_0 )
    => IF valRun.stamp = "keep"
       THEN valRun.rc = 0 /\ valRun.fail = "none"
       ELSE valRun.rc = 1 /\ valRun.fail = "wrong debian-binary contents"

\* a variant written from a source with an xz payload was validated with
\* its version stamp changed to b"2.0"
C16_Witness ==
    /\ valRun.done
    /\ \E k \in DOMAIN outDir : outDir[k] = valRun.pkg
    /\ ContentAt(MembersOf(srcDeb), IndexOfName(MembersOf(srcDeb), N_DEBIAN_BINARY))
          = DEBIAN_BINARY_2_0
    /\ ~StartsWith(SrcPayload.content, LZMA_ALONE_HEADER)
    /\ srcDeb \in SourcePackages
    /\ valRun.stamp = "2.0"
    /\ valRun.fail = "wrong debian-binary contents"

\* the files of the control archive of a package (none when it cannot be read)
ControlFilesOf(pkg) ==
    Bind(GzipDecompress(ContentAt(MembersOf(pkg), IndexOfName(MembersOf(pkg), N_CONTROL_TAR_GZ))),
         LAMBDA gz : IF gz.err # "none" THEN <<>> ELSE UnTar(gz.raw).entries)

\* "Package:", "Version:", "Architecture:"
K_PACKAGE == <<80, 97, 99, 107, 97, 103, 101, 58>>
K_VERSION == <<86, 101, 114, 115, 105, 111, 110, 58>>
K_ARCHITECTURE == <<65, 114, 99, 104, 105, 116, 101, 99, 116, 117, 114, 101, 58>>

\* C19: a run of the variant generator on a source package whose control
\* archive is absent or without entries ends with status 0, and every
\* variant it wrote holds a control file with the fields Package, Version,
\* Architecture and Maintainer.
C19_SynthesizedControl ==
    (lastRun.tool = "ip_changer" /\ lastRun.input = srcDeb /\ srcDeb \in StrippedSources
       /\ lastRun.err # "NoValidIps")
    => /\ lastRun.rc = 0
       /\ \E i \in 1..Len(lastRun.results) : lastRun.results[i].ok
       /\ \A k \in DOMAIN outDir :
             /\ TreeHas(ControlFilesOf(outDir[k]), "control")
             /\ \A key \in { K_PACKAGE, K_VERSION, K_ARCHITECTURE, K_MAINTAINER } :
                   \E l \in 1..Len(SplitLines(TreeGet(ControlFilesOf(outDir[k]), "control"), <<>>)) :
                       StartsWith(SplitLines(TreeGet(ControlFilesOf(outDir[k]), "control"), <<>>)[l], key)

\* the members of the validated package whose name starts with "data.tar"
PayloadsGiven ==
    { i \in 1..Len(MembersOf(valRun.given)) :
        StartsWith(MembersOf(valRun.given)[i].name, N_DATA_TAR) }

\* C17: the validator succeeds on a package with one payload member only
\* when that member starts with the legacy signature 5d 00 00.
C17_LegacySignatureOnly ==
    (valRun.done /\ valRun.rc = 0 /\ Cardinality(PayloadsGiven) = 1)
    => \A i \in PayloadsGiven :
          StartsWith(MembersOf(valRun.given)[i].content, <<93, 0, 0>>)

\* C18: the validator succeeds only on a package with exactly one member
\* whose name starts with "data.tar", named data.tar.lzma, data.tar.gz or
\* data.tar.
C18_OneRecognisedPayload ==
    (valRun.done /\ valRun.rc = 0)
    => /\ Cardinality(PayloadsGiven) = 1
       /\ \A i \in PayloadsGiven :
             MembersOf(valRun.given)[i].name
                 \in { N_DATA_TAR_LZMA, N_DATA_TAR, N_DATA_TAR \o <<46, 103, 122>> }

----------------------------------------------------------------------------
(* Specifications.                                                         *)

\* nothing written or read yet, no file under the patcher, no tool run
InitAr == ArInit /\ BinIdle /\ PkgIdle /\ CtlIdle /\ ConIdle /\ StepIdle /\ TarIdle /\ MonIdle

\* a file in the bounds under the patcher, no patch call made yet
InitPatch == ArInit /\ BinInit /\ PkgIdle /\ CtlIdle /\ ConIdle /\ StepIdle /\ TarIdle /\ MonIdle

\* a source package in the bounds on disk, no tool run yet
Init == ArInit /\ BinIdle /\ PkgInit /\ CtlIdle /\ ConIdle /\ StepIdle /\ TarIdle /\ MonIdle

\* a control file in the bounds, modify_maintainer not called yet
InitControl == ArInit /\ BinIdle /\ PkgIdle /\ CtlInit /\ ConIdle /\ StepIdle /\ TarIdle /\ MonIdle

\* the container codec: writer then reader, on every Container in the bounds
SpecAr == InitAr /\ [][ArNext]_vars

\* the same, with the file damaged before it is read
SpecArRead == InitAr /\ [][ArNext \/ ArDamage]_vars

\* the binary patcher: any patch calls on any file in the bounds
SpecPatch == InitPatch /\ [][BinNext]_vars

\* the metadata patcher: one modify_maintainer call on any control file in
\* the bounds
SpecControl == InitControl /\ [][CtlModify]_vars

\* a package from anywhere on disk, no tool run yet
InitValidate == ArInit /\ BinIdle /\ ValInit /\ CtlIdle /\ ConIdle /\ StepIdle /\ TarIdle /\ MonIdle

\* the validator on any package of ValidatorInputs
SpecValidate == InitValidate /\ [][ValidateRun]_vars

\* a source package in the bounds on disk, two variant runs about to start
InitConcurrent == ArInit /\ BinIdle /\ PkgInit /\ CtlIdle /\ ConInit /\ StepIdle /\ TarIdle /\ MonIdle

\* two variant runs for different addresses, interleaved step by step
SpecConcurrent == InitConcurrent /\ [][ConNext]_vars

\* a source package under one of its paths, no run started yet
InitSteps == ArInit /\ BinIdle /\ PkgIdle /\ CtlIdle /\ ConIdle /\ StepInit /\ TarIdle /\ MonIdle

\* runs of the tools, one after the other, step by step
SpecSteps == InitSteps /\ [][StepNext]_vars

\* a tree staged on a build host, no builder called yet
InitTar == ArInit /\ BinIdle /\ PkgIdle /\ CtlIdle /\ ConIdle /\ StepIdle /\ TarInit /\ MonIdle

\* the file-archive builders: one call of any builder on any staged tree
SpecTar == InitTar /\ [][TarBuild]_vars

\* monitoring starts on a new monitor or on one that has found the connection
InitMonitor ==
    ArInit /\ BinIdle /\ PkgIdle /\ CtlIdle /\ ConIdle /\ StepIdle /\ TarIdle /\ MonInit

\* the monitor: any poll results, at any of the gaps, stopped at any time
SpecMonitor == InitMonitor /\ [][MonNext]_vars

\* the tools: any runs, in any order, on any source package in the bounds
Spec == Init /\ [][Next]_vars

====
